---------------------------- MODULE Spec2Model ----------------------------
(***************************************************************************)
(* Reconciliation engine of the guild recruitment bot: one guild's poll    *)
(* (pollServer) drives the phases of ServerManager against the threads of  *)
(* the Alliance and Horde forum channels and the rows of the spreadsheet.  *)
(*                                                                         *)
(* Strings are sequences of one-character strings, so that trim(),         *)
(* toLowerCase(), includes() and the title sanitizer are computed, not     *)
(* assumed.  Time is counted in hours.                                     *)
(***************************************************************************)
EXTENDS Integers, Sequences, FiniteSets, TLC

(***************************************************************************)
(* Strings                                                                 *)
(***************************************************************************)
UpperChars == <<"A","B","C","D","E","F","G","H","I","J","K","L","M",
                "N","O","P","Q","R","S","T","U","V","W","X","Y","Z">>

LowerChars == <<"a","b","c","d","e","f","g","h","i","j","k","l","m",
                "n","o","p","q","r","s","t","u","v","w","x","y","z">>

DigitChars == <<"0","1","2","3","4","5","6","7","8","9">>

Range(s) == { s[i] : i \in DOMAIN s }

\* the lower-case letter of every upper-case letter
LowerOf ==
    [c \in Range(UpperChars) |->
        LowerChars[CHOOSE i \in DOMAIN UpperChars : UpperChars[i] = c]]

\* String.prototype.toLowerCase on one character
LowerChar(c) == IF c \in DOMAIN LowerOf THEN LowerOf[c] ELSE c

\* String.prototype.toLowerCase
toLowerCase(s) == [i \in DOMAIN s |-> LowerChar(s[i])]

IsSpace(c) == c = " "

\* String.prototype.trim: drops the leading and the trailing white space
trim(s) ==
    LET keep == { i \in DOMAIN s : ~IsSpace(s[i]) }
    IN  IF keep = {} THEN << >>
        ELSE LET lo == CHOOSE i \in keep : \A j \in 1..(i - 1) : IsSpace(s[j])
                 hi == CHOOSE i \in keep : \A j \in (i + 1)..Len(s) : IsSpace(s[j])
             IN  SubSeq(s, lo, hi)

\* String.prototype.includes: sub occurs in s as a contiguous substring
includes(s, sub) ==
    \E i \in 1..(Len(s) - Len(sub) + 1) : SubSeq(s, i, i + Len(sub) - 1) = sub

\* the characters /[^\p{L}\p{N}\s\-]/gu leaves in place: letters, digits,
\* white space and the hyphen
AllowedChars ==
    Range(UpperChars) \cup Range(LowerChars) \cup Range(DigitChars) \cup {" ", "-"}

IsAllowedChar(c) == c \in AllowedChars

\* s.replace(allowedCharactersRegex, '')
stripDisallowed(s) == SelectSeq(s, IsAllowedChar)

\* ServerManager.sanitizeTitle: `<${cleanedGuildName}> - ${cleanedGuildScope}`
sanitizeTitle(guildName, guildScope) ==
    <<"<">> \o trim(stripDisallowed(guildName)) \o <<">", " ", "-", " ">>
            \o trim(stripDisallowed(guildScope))

\* thread.name.trim().toLowerCase(), the normalised title of every phase
normTitle(name) == toLowerCase(trim(name))


(***************************************************************************)
(* Configuration of the polled guild and the clock                         *)
(***************************************************************************)
\* serverConfig.THREAD_AGE_LIMIT_HOURS as the setup command stored it
THREAD_AGE_LIMIT_HOURS == 2

\* serverConfig.MAX_ENTRY_AGE_DAYS as the setup command stored it
MAX_ENTRY_AGE_DAYS == 1

\* `this.config.MAX_NEW_THREADS_PER_CYCLE || 10`: the fallback of postNewEntries
DefaultMaxNewThreads == 10

VARIABLES
    stored,     \* the record of the guild in server-settings.json
    used,       \* this.config of the ServerManager of the running poll
    atStart     \* the record of the guild when the running poll began

\* the thread age limit a setuptimers command writes during the run
SetupThreadAgeLimitHours == 48

\* the record of the guild as the setup commands wrote it; `cap` is a
\* MAX_NEW_THREADS_PER_CYCLE entry of the record, 0 when it has none
ServerConfig(cap) ==
    [ THREAD_AGE_LIMIT_HOURS    |-> THREAD_AGE_LIMIT_HOURS,
      MAX_ENTRY_AGE_DAYS        |-> MAX_ENTRY_AGE_DAYS,
      MAX_NEW_THREADS_PER_CYCLE |-> cap ]

\* readServerConfig(guild.id): the record of the guild as the file holds it
readServerConfig(file) == file

\* The Config object pollServer hands to the ServerManager.  It has no
\* MAX_NEW_THREADS_PER_CYCLE member: the object literal does not set one
\* (0 stands for the undefined member).
Config(serverConfig) ==
    [ THREAD_AGE_LIMIT_HOURS    |-> serverConfig.THREAD_AGE_LIMIT_HOURS,
      MAX_ENTRY_AGE_DAYS        |-> serverConfig.MAX_ENTRY_AGE_DAYS,
      MAX_NEW_THREADS_PER_CYCLE |-> 0 ]

\* a variant of pollConfig that keeps the configuration of the previous poll
pollConfig_cached(file, previous) == previous

\* the configuration of a poll: read from the file when the poll begins
pollConfig(file, previous) == Config(readServerConfig(file))

\* this.config
config == used

HoursPerDay == 24

\* thread.createdAt === null
NoDate == -1

\* ServerManager.getThreadAge, in hours at time t
getThreadAge(thread, t) ==
    IF thread.createdAt = NoDate THEN -1 ELSE t - thread.createdAt

\* a variant of needsRepost with a strict boundary
needsRepost_strict(thread, t) ==
    getThreadAge(thread, t) > config.THREAD_AGE_LIMIT_HOURS

\* ServerManager.needsRepost
needsRepost(thread, t) ==
    getThreadAge(thread, t) >= config.THREAD_AGE_LIMIT_HOURS

(***************************************************************************)
(* A timestamp cell is a record: kind "date" carries the hour `at` that    *)
(* DateTime.fromFormat(cell, 'MM/dd/yyyy HH:mm:ss') parses it to; kind     *)
(* "empty" is the empty cell, kind "garbage" a text that does not parse,   *)
(* kind "missing" the cell a ragged row does not have (undefined).         *)
(***************************************************************************)
DateCell(at)  == [kind |-> "date", at |-> at]
EmptyCell     == [kind |-> "empty", at |-> 0]
GarbageCell   == [kind |-> "garbage", at |-> 0]
MissingCell   == [kind |-> "missing", at |-> 0]

\* `timestamp` as a JavaScript condition: undefined and '' are falsy
Truthy(cell) == cell.kind \in {"date", "garbage"}

\* DateTime.fromFormat(undefined, ...) throws InvalidArgumentError
isEntryTooOldThrows(cell) == cell.kind = "missing"

\* a variant of isEntryTooOld with an inclusive boundary
isEntryTooOld_inclusive(cell, t) ==
    /\ cell.kind = "date"
    /\ (t - cell.at) >= config.MAX_ENTRY_AGE_DAYS * HoursPerDay

\* ServerManager.isEntryTooOld: an invalid DateTime yields a NaN difference,
\* and NaN > MAX_ENTRY_AGE_DAYS is false
isEntryTooOld(cell, t) ==
    /\ cell.kind = "date"
    /\ (t - cell.at) > config.MAX_ENTRY_AGE_DAYS * HoursPerDay

(***************************************************************************)
(* Threads and rows                                                        *)
(*                                                                         *)
(* A thread is [id, name, createdAt]; a channel's threads are a sequence   *)
(* in the order channel.threads.fetchActive() enumerates them.  A row is   *)
(* [guildName, faction, scope, timestamp], the cells of the columns        *)
(* 'Guild Name', 'Faction', 'Guild Type' and 'Timestamp', and image, the   *)
(* cell of the image column, and note, the cell of one more column the     *)
(* message shows: a text, or not there.                                    *)
(***************************************************************************)
Channels == {"alliance", "horde"}

Thread(id, name, createdAt) == [id |-> id, name |-> name, createdAt |-> createdAt]

Row(guildName, faction, scope, timestamp) ==
    [guildName |-> guildName, faction |-> faction, scope |-> scope,
     timestamp |-> timestamp, image |-> MissingCell, note |-> MissingCell]

\* a cell that holds a text
TextCell(text) == [kind |-> "text", at |-> 0, text |-> text]

\* the row with `cell` in its image column
WithImage(row, cell) == [row EXCEPT !.image = cell]

\* the row with `cell` in its 'Description' column
WithNote(row, cell) == [row EXCEPT !.note = cell]

Ids(ts) == { ts[i].id : i \in DOMAIN ts }

\* the threads of ts that are left when those with an id in gone are deleted
Without(ts, gone) == SelectSeq(ts, LAMBDA th : th.id \notin gone)

\* the first index of s whose element satisfies P, or 0 (Array.prototype.find)
FirstIndex(s, P(_)) ==
    IF \E i \in DOMAIN s : P(s[i])
    THEN CHOOSE i \in DOMAIN s : P(s[i]) /\ \A j \in 1..(i - 1) : ~P(s[j])
    ELSE 0

(***************************************************************************)
(* removeDuplicateThreads                                                  *)
(***************************************************************************)
\* threadsByTitle.get(title): the indices of the threads of one normalised
\* title, in enumeration order
threadsByTitle(ts, title) ==
    SelectSeq([i \in DOMAIN ts |-> i], LAMBDA i : normTitle(ts[i].name) = title)

\* a variant of duplicateThreads that keeps the last thread of a group
duplicateThreads_keepLast(ts) ==
    { ts[i].id : i \in { k \in DOMAIN ts :
        \E j \in DOMAIN ts : j > k /\ normTitle(ts[j].name) = normTitle(ts[k].name) } }

\* the ids of threadList.slice(1) of every group with more than one thread
duplicateThreads(ts) ==
    UNION { LET threadList == threadsByTitle(ts, normTitle(ts[k].name))
            IN  IF Len(threadList) > 1
                THEN { ts[threadList[n]].id : n \in 2..Len(threadList) }
                ELSE {}
          : k \in DOMAIN ts }

(***************************************************************************)
(* removeUnmatchedThreads                                                  *)
(***************************************************************************)
\* the rows that enter sheetEntries: guildName && timestamp && !isEntryTooOld
entersSheetEntries(row, t) ==
    /\ normTitle(row.guildName) # << >>
    /\ Truthy(row.timestamp)
    /\ ~isEntryTooOld(row.timestamp, t)

\* Array.from(sheetEntries.keys()): the keys in the order of their first
\* insertion (Map.set on an existing key keeps its place)
sheetEntryKeys(rows, t) ==
    LET idx == SelectSeq([i \in DOMAIN rows |-> i],
                   LAMBDA i : /\ entersSheetEntries(rows[i], t)
                              /\ \A j \in 1..(i - 1) :
                                    entersSheetEntries(rows[j], t)
                                      => normTitle(rows[j].guildName)
                                           # normTitle(rows[i].guildName))
    IN  [n \in DOMAIN idx |-> normTitle(rows[idx[n]].guildName)]

\* sheetEntries.get(key): the timestamp of the last row set under the key
sheetEntryValue(rows, t, key) ==
    LET hits == { i \in DOMAIN rows : /\ entersSheetEntries(rows[i], t)
                                      /\ normTitle(rows[i].guildName) = key }
    IN  rows[CHOOSE i \in hits : \A j \in hits : j <= i].timestamp

\* a variant of unmatchedThreads that keeps a thread for any row that names
\* its guild, too old or not
unmatchedThreads_anyRow(ts, rows, t) ==
    { ts[i].id : i \in { k \in DOMAIN ts :
        ~\E n \in DOMAIN rows :
            /\ normTitle(rows[n].guildName) # << >>
            /\ includes(normTitle(ts[k].name), normTitle(rows[n].guildName)) } }

\* a variant of unmatchedThreads that matches by strict equality of title
\* and guild name
unmatchedThreads_strict(ts, rows, t) ==
    { ts[i].id : i \in { k \in DOMAIN ts :
        ~\E n \in DOMAIN sheetEntryKeys(rows, t) :
            normTitle(ts[k].name) = sheetEntryKeys(rows, t)[n] } }

\* threadsToDelete: no key of sheetEntries is contained in the title, or
\* the entry of the first such key is too old
unmatchedThreads(ts, rows, t) ==
    LET keys == sheetEntryKeys(rows, t)
        toDelete(thread) ==
            LET threadName == normTitle(thread.name)
                m == FirstIndex(keys, LAMBDA guildName : includes(threadName, guildName))
                isOld == IF m # 0
                         THEN isEntryTooOld(sheetEntryValue(rows, t, keys[m]), t)
                         ELSE TRUE
            IN  m = 0 \/ isOld
    IN  { ts[i].id : i \in { k \in DOMAIN ts : toDelete(ts[k]) } }

(***************************************************************************)
(* repostOldestThread                                                      *)
(***************************************************************************)
\* the sort key of threads.sort: createdAt, 0 for a thread without one
sortKey(thread) == IF thread.createdAt = NoDate THEN 0 ELSE thread.createdAt

\* fetchAndFilterThreads(channel, needsRepost) sorted oldest first: the
\* indices of the threads over the age limit; Array.prototype.sort is
\* stable, so equal keys keep the enumeration order
staleSorted(ts, t) ==
    LET stale == { i \in DOMAIN ts : needsRepost(ts[i], t) }
        before(i, j) == \/ sortKey(ts[i]) < sortKey(ts[j])
                        \/ sortKey(ts[i]) = sortKey(ts[j]) /\ i < j
        rank(i) == 1 + Cardinality({ j \in stale : before(j, i) })
    IN  [k \in 1..Cardinality(stale) |-> CHOOSE i \in stale : rank(i) = k]

\* a variant of matchingRow that takes the first row of the sheet
matchingRow_firstRow(rows, thread, t) == IF rows = << >> THEN 0 ELSE 1

\* rows.slice(1).find(r => guildName && threadNameLower.includes(guildName)):
\* the index of the first row whose guild name the title contains, or 0
matchingRow(rows, thread, t) ==
    LET threadNameLower == normTitle(thread.name)
        hit(i) == /\ normTitle(rows[i].guildName) # << >>
                  /\ includes(threadNameLower, normTitle(rows[i].guildName))
    IN  IF \E i \in DOMAIN rows : hit(i)
        THEN CHOOSE i \in DOMAIN rows : hit(i) /\ \A j \in 1..(i - 1) : ~hit(j)
        ELSE 0

\* the outcomes in which a race against a timeout is lost
TimedOut == {"timeout", "timeoutDelete", "timeoutCreate"}

\* what Promise.race([repostPromise, repostTimeoutPromise]) gives:
\* handleThreadReposting catches whatever its delete and its create throw,
\* so the race is either won or lost to the 10 s timer
raceResult(outcome) == IF outcome \in TimedOut THEN "rejected" ELSE "resolved"

\* a variant of loopEnds that goes on to the next thread after a lost race
loopEnds_retryAfterTimeout(result) == result = "resolved"

\* `break` after repostedCount++ and `break` in the timeout branch: the
\* loop over the threads is left after the first handleThreadReposting
loopEnds(result) == result \in {"resolved", "rejected"}

\* the loop of handleReposting from the k-th stale thread on, every call of
\* handleThreadReposting meeting `outcome`: the calls made, each with the
\* index of its thread and of its row, and threw when isEntryTooOld throws
RECURSIVE repostLoop(_, _, _, _, _, _, _)
repostLoop(ts, rows, t, sorted, k, outcome, calls) ==
    IF k > Len(sorted) THEN [calls |-> calls, threw |-> FALSE]
    ELSE LET r    == matchingRow(rows, ts[sorted[k]], t)
             next == repostLoop(ts, rows, t, sorted, k + 1, outcome, calls)
         IN  IF r = 0 THEN next
             ELSE IF isEntryTooOldThrows(rows[r].timestamp)
                  THEN [calls |-> calls, threw |-> TRUE]
             ELSE IF isEntryTooOld(rows[r].timestamp, t) THEN next
             ELSE LET call == [thread |-> sorted[k], row |-> r]
                  IN  IF loopEnds(raceResult(outcome))
                      THEN [calls |-> Append(calls, call), threw |-> FALSE]
                      ELSE repostLoop(ts, rows, t, sorted, k + 1, outcome,
                                      Append(calls, call))

\* the first thread of `sorted` that handleReposting hands to
\* handleThreadReposting, and its row; thread 0 when there is none
firstCall(ts, rows, t, sorted) ==
    LET r == repostLoop(ts, rows, t, sorted, 1, "ok", << >>)
    IN  IF r.calls = << >> THEN [thread |-> 0, row |-> 0, threw |-> r.threw]
        ELSE [thread |-> r.calls[1].thread, row |-> r.calls[1].row, threw |-> FALSE]

\* the thread handleReposting reposts in a channel, and the row it uses
repostChoice(ts, rows, t) == firstCall(ts, rows, t, staleSorted(ts, t))

\* the title handleThreadReposting and postNewEntries create a thread under
rowTitle(row) == sanitizeTitle(trim(row.guildName), trim(row.scope))

(***************************************************************************)
(* postNewEntries                                                          *)
(***************************************************************************)
Alliance == <<"A","l","l","i","a","n","c","e">>
Horde    == <<"H","o","r","d","e">>

\* a variant of targetChannel that sends every other faction to Horde
targetChannel_default(faction) ==
    IF trim(faction) = Alliance THEN "alliance" ELSE "horde"

\* faction === 'Alliance' ? allianceChannel : faction === 'Horde' ? hordeChannel : null
targetChannel(faction) ==
    IF trim(faction) = Alliance THEN "alliance"
    ELSE IF trim(faction) = Horde THEN "horde"
    ELSE "none"

\* a variant of maxNewThreads that allows one thread more than the cap
maxNewThreads_offByOne ==
    IF config.MAX_NEW_THREADS_PER_CYCLE # 0
    THEN config.MAX_NEW_THREADS_PER_CYCLE + 1
    ELSE DefaultMaxNewThreads + 1

\* const maxNewThreads = this.config.MAX_NEW_THREADS_PER_CYCLE || 10
maxNewThreads ==
    IF config.MAX_NEW_THREADS_PER_CYCLE # 0
    THEN config.MAX_NEW_THREADS_PER_CYCLE
    ELSE DefaultMaxNewThreads

\* a variant of existingThreadNames that lists the Alliance channel only
existingThreadNames_allianceOnly(thr) ==
    { normTitle(thr["alliance"][i].name) : i \in DOMAIN thr["alliance"] }

\* existingThreadNames: the normalised titles of both channels
existingThreadNames(thr) ==
    UNION { { normTitle(thr[ch][i].name) : i \in DOMAIN thr[ch] } : ch \in Channels }

\* first pass: the trimmed guild names no existing title contains
newGuildNames(rows, names) ==
    { trim(rows[i].guildName) : i \in { k \in DOMAIN rows :
        /\ trim(rows[k].guildName) # << >>
        /\ ~\E threadName \in names :
              includes(threadName, toLowerCase(trim(rows[k].guildName))) } }

\* what the platform does with the n-th creation call of the phase: the
\* oracle names one call that fails or times out, every other call succeeds
callOutcome(oracle, n) == IF oracle.at = n THEN oracle.kind ELSE "ok"

NoFault == [at |-> 0, kind |-> "ok"]

\* getRateLimitDelay: error.retryAfter || 10000, in milliseconds, for a
\* rate limit that carries no hint
DefaultRateLimitDelay == 10000

\* what the catch of postNewEntries catches after a creation call:
\* createGuildRecruitmentThread swallows whatever channel.threads.create
\* throws, a RateLimitError included, and returns undefined, so the race
\* rejects with the error of the 10 s timer only
caughtError(outcome) == IF outcome = "timeout" THEN "timeout" ELSE "none"

\* the milliseconds postNewEntries sleeps before its next operation: the
\* delay of the `error instanceof RateLimitError` branch of its catch
sleepAfter(outcome) ==
    IF caughtError(outcome) = "rateLimit" THEN DefaultRateLimitDelay ELSE 0

\* a variant of hasTimeoutOccurred that never notes a timeout
hasTimeoutOccurred_never(calls) == FALSE

\* hasTimeoutOccurred: set when the race of the last creation call was lost
hasTimeoutOccurred(calls) ==
    calls # << >> /\ calls[Len(calls)].outcome = "timeout"

(***************************************************************************)
(* fetchImage and the attachment of generateMessageContent                 *)
(***************************************************************************)
endsWith(s, suffix) ==
    Len(s) >= Len(suffix) /\ SubSeq(s, Len(s) - Len(suffix) + 1, Len(s)) = suffix

startsWith(s, prefix) ==
    Len(s) >= Len(prefix) /\ SubSeq(s, 1, Len(prefix)) = prefix

\* the endings /\.(png|jpg|jpeg)$/ accepts
ImageExtensions ==
    { <<".","p","n","g">>, <<".","j","p","g">>, <<".","j","p","e","g">> }

\* imageUrl.match(/\.(png|jpg|jpeg)$/)
matchesImageExtension(text) == \E ext \in ImageExtensions : endsWith(text, ext)

\* the URLs of the image cells: a page, a picture, a page under the name of
\* a picture, a picture on a server that does not answer the probe, and a
\* picture whose download breaks off
PageUrl    == <<"h","/","p",".","h","t","m","l">>
PngUrl     == <<"h","/","a",".","p","n","g">>
HtmlPngUrl == <<"h","/","b",".","p","n","g">>
DownUrl    == <<"h","/","c",".","j","p","g">>
CutUrl     == <<"h","/","d",".","j","p","e","g">>

ImagePrefix == <<"i","m","a","g","e","/">>
PngType     == ImagePrefix \o <<"p","n","g">>
HtmlType    == <<"t","e","x","t","/","h","t","m","l">>

\* axios.head(url): the request rejects, or the response carries the
\* content type the server gives the URL
axiosHead(url) ==
    IF url = DownUrl THEN [rejects |-> TRUE, contentType |-> << >>]
    ELSE IF url \in {PngUrl, CutUrl}
         THEN [rejects |-> FALSE, contentType |-> PngType]
         ELSE [rejects |-> FALSE, contentType |-> HtmlType]

\* axios.get(url, { responseType: 'arraybuffer' }): the request rejects, or
\* the response carries the bytes stored under the URL
axiosGet(url) == [rejects |-> url = CutUrl, data |-> << url >>]

\* the null fetchImage returns
NoBuffer == << >>

\* a variant of fetchImage that downloads whatever the URL serves
fetchImage_unchecked(url) ==
    IF axiosHead(url).rejects THEN NoBuffer
    ELSE IF axiosGet(url).rejects THEN NoBuffer
    ELSE axiosGet(url).data

\* ServerManager.fetchImage: null unless the probe answers with a content
\* type that starts with 'image/' and the download succeeds; its catch
\* turns every rejection into null
fetchImage(url) ==
    IF axiosHead(url).rejects THEN NoBuffer
    ELSE IF \/ axiosHead(url).contentType = << >>
            \/ ~startsWith(axiosHead(url).contentType, ImagePrefix)
         THEN NoBuffer
    ELSE IF axiosGet(url).rejects THEN NoBuffer
    ELSE axiosGet(url).data

\* config.IMAGE_COLUMN_HEADER, as /setupvalues stores it
ImageColumn == "Guild Logo"

\* getImageColumnIndex(headers) !== -1
imageColumnFound(hs) == ImageColumn \in hs

\* config.EXCLUDED_COLUMN_HEADER, as /setupvalues stores it
ExcludedColumn == "Timestamp"

\* a column of the sheet that the message shows as a field
NoteColumn == "Description"

\* the columns in the order of the sheet; the header row holds those of
\* them that the sheet has, and the loop over the cells starts at its second
\* column
SheetColumns ==
    << "Timestamp", "Guild Name", "Faction", "Guild Type", NoteColumn, ImageColumn >>

\* the columns of the header row hs that the loop over the cells does not
\* skip, in the order of the sheet: column 0, the image column ('guild
\* logo') and the excluded column are not shown; no column of the sheet is
\* an emote column ('[...]'), 'Discord Link' or 'Discord Contact'
shownColumns(hs) ==
    LET present == SelectSeq(SheetColumns, LAMBDA key : key \in hs)
    IN  SelectSeq(SubSeq(present, 2, Len(present)),
                  LAMBDA key : key # ImageColumn /\ key # ExcludedColumn)

\* row[j]: the cell of the row under a column, MissingCell when the row ends
\* before it
cellOf(row, key) ==
    IF key = "Guild Name" THEN TextCell(row.guildName)
    ELSE IF key = "Faction" THEN TextCell(row.faction)
    ELSE IF key = "Guild Type" THEN TextCell(row.scope)
    ELSE row.note

\* the ceilings of an embed field: `key.length <= 256 && value.length <= 1024`
FieldNameLimit  == 256
FieldValueLimit == 1024

Ellipsis == <<".", ".", ".">>

\* String.prototype.slice(0, n)
sliceTo(s, n) == SubSeq(s, 1, IF Len(s) < n THEN Len(s) ELSE n)

\* a variant of truncated that keeps the value with its ellipsis under the
\* ceiling
truncated_withinLimit(value) ==
    IF Len(value) > FieldValueLimit
    THEN sliceTo(value, FieldValueLimit - Len(Ellipsis)) \o Ellipsis
    ELSE value

\* `if (value.length > 1024) value = value.slice(0, 1024) + '...'`
truncated(value) ==
    IF Len(value) > FieldValueLimit
    THEN sliceTo(value, FieldValueLimit) \o Ellipsis
    ELSE value

\* what the loop pushes on otherFields for one cell and embed.addFields takes
\* over (`field.name && field.value`): the field of the cell, or nothing
otherField(key, cell) ==
    IF cell.kind # "text" THEN << >>
    ELSE LET value == truncated(trim(cell.text))
         IN  IF /\ Len(key) <= FieldNameLimit
                /\ Len(value) <= FieldValueLimit
                /\ value # << >>
             THEN << [name |-> key, value |-> value] >>
             ELSE << >>

\* the fields of the embed, in the order of the columns
RECURSIVE otherFields(_, _)
otherFields(keys, row) ==
    IF keys = << >> THEN << >>
    ELSE otherField(Head(keys), cellOf(row, Head(keys))) \o otherFields(Tail(keys), row)

\* the message generateMessageContent returns: the fields of the embed, and
\* as files the image of the row when its cell ends like a picture and
\* fetchImage has the data, none otherwise
generateMessageContent(hs, row) ==
    [fields |-> otherFields(shownColumns(hs), row),
     files |->
        IF /\ imageColumnFound(hs)
           /\ row.image.kind = "text"
           /\ matchesImageExtension(row.image.text)
        THEN LET imageData == fetchImage(row.image.text)
             IN  IF imageData # NoBuffer THEN << row.image.text >> ELSE << >>
        ELSE << >>]

\* second pass, from row i on, with the creation calls made so far: every
\* call that returns counts in newPostsAdded (createGuildRecruitmentThread
\* swallows its errors), a timed-out call ends the loop
RECURSIVE postLoop(_, _, _, _, _, _, _)
postLoop(rows, hs, newNames, t, oracle, i, calls) ==
    IF i > Len(rows) \/ hasTimeoutOccurred(calls) \/ Len(calls) >= maxNewThreads
    THEN [calls |-> calls, threw |-> FALSE]
    ELSE     LET row == rows[i]
                 guildName == trim(row.guildName)
                 next == postLoop(rows, hs, newNames, t, oracle, i + 1, calls)
             IN  IF guildName = << >> \/ guildName \notin newNames THEN next
                 ELSE IF isEntryTooOldThrows(row.timestamp)
                      THEN [calls |-> calls, threw |-> TRUE]
                 ELSE IF isEntryTooOld(row.timestamp, t) THEN next
                 ELSE IF targetChannel(row.faction) = "none" THEN next
                 ELSE postLoop(rows, hs, newNames, t, oracle, i + 1,
                        Append(calls,
                          [row |-> i, ch |-> targetChannel(row.faction),
                           title |-> rowTitle(row),
                           files |-> generateMessageContent(hs, row).files,
                           fields |-> generateMessageContent(hs, row).fields,
                           outcome |-> callOutcome(oracle, Len(calls) + 1),
                           slept |-> sleepAfter(callOutcome(oracle, Len(calls) + 1))]))

\* the creation calls of one run of postNewEntries
postCalls(thr, rows, hs, t, oracle) ==
    LET newNames == newGuildNames(rows, existingThreadNames(thr))
    IN  IF newNames = {} THEN [calls |-> << >>, threw |-> FALSE]
        ELSE postLoop(rows, hs, newNames, t, oracle, 1, << >>)

\* channel ch after the successful calls among `calls` created their
\* threads; the n-th call of the phase creates thread id firstId + n - 1
afterCalls(ts, calls, ch, firstId, t) ==
    LET mine == SelectSeq([n \in DOMAIN calls |-> n],
                    LAMBDA n : calls[n].ch = ch /\ calls[n].outcome = "ok")
    IN  ts \o [k \in DOMAIN mine |->
                 Thread(firstId + mine[k] - 1, calls[mine[k]].title, t)]

(***************************************************************************)
(* findSimilarThreads and checkAndPostSimilarThreads                       *)
(***************************************************************************)
\* first.replace(/\s+/g, '') of compareTwoStrings
stripSpaces(s) == SelectSeq(s, LAMBDA c : ~IsSpace(c))

\* the bigrams of a string, in order
RECURSIVE bigrams(_)
bigrams(s) ==
    IF Len(s) < 2 THEN << >>
    ELSE << << s[1], s[2] >> >> \o bigrams(Tail(s))

\* intersectionSize of compareTwoStrings: a bigram of the second string
\* counts while the first string has occurrences of it left
intersectionSize(first, second) ==
    LET f == bigrams(first)
        g == bigrams(second)
    IN  Cardinality({ j \in DOMAIN g :
            Cardinality({ k \in 1..j : g[k] = g[j] })
               <= Cardinality({ k \in DOMAIN f : f[k] = g[j] }) })

\* stringSimilarity.compareTwoStrings, as the fraction num / den: 1 for
\* strings equal without their white space, 0 when one has fewer than two
\* characters, else 2 * intersectionSize / (length + length - 2)
compareTwoStrings(a, b) ==
    LET first  == stripSpaces(a)
        second == stripSpaces(b)
    IN  IF first = second THEN [num |-> 1, den |-> 1]
        ELSE IF Len(first) < 2 \/ Len(second) < 2 THEN [num |-> 0, den |-> 1]
        ELSE [num |-> 2 * intersectionSize(first, second),
              den |-> Len(first) + Len(second) - 2]

\* the threshold checkAndPostSimilarThreads passes: 0.8
AlertThreshold == [num |-> 4, den |-> 5]

\* similarity >= similarityThreshold
atLeast(similarity, threshold) ==
    similarity.num * threshold.den >= threshold.num * similarity.den

\* the pairs (i, j), i < j, in the order the two loops of
\* findSimilarThreads meet them
orderedPairs(n) ==
    SelectSeq([k \in 1..(n * n) |-> << ((k - 1) \div n) + 1, ((k - 1) % n) + 1 >>],
              LAMBDA pr : pr[1] < pr[2])

\* threads.map(thread => thread.name.trim().toLowerCase())
RECURSIVE threadTitles(_)
threadTitles(ts) ==
    IF ts = << >> THEN << >>
    ELSE << normTitle(Head(ts).name) >> \o threadTitles(Tail(ts))

\* the pairs whose normalised titles are similar
similarPairs(ts, threshold) ==
    LET titles == threadTitles(ts)
    IN  SelectSeq(orderedPairs(Len(ts)),
                  LAMBDA pr : atLeast(compareTwoStrings(titles[pr[1]], titles[pr[2]]),
                                      threshold))

\* a variant of findSimilarThreads that files a similar pair under the
\* title of its later thread
findSimilarThreads_keyedByLater(ts, threshold) ==
    LET pairs == similarPairs(ts, threshold)
        title(i) == normTitle(ts[i].name)
        firstOf(k) == \A m \in 1..(k - 1) : title(pairs[m][2]) # title(pairs[k][2])
        keyAt == SelectSeq([k \in DOMAIN pairs |-> k], firstOf)
    IN  [c \in DOMAIN keyAt |->
           [key |-> title(pairs[keyAt[c]][2]),
            members |->
               LET mine == SelectSeq(pairs,
                              LAMBDA pr : title(pr[2]) = title(pairs[keyAt[c]][2]))
               IN  [m \in DOMAIN mine |-> mine[m][1]]]]

\* findSimilarThreads: the entries of similarThreadsMap in the order of
\* their insertion; the key is the normalised title of the earlier thread of
\* a similar pair, the members are the indices of the later threads, in the
\* order they were pushed
findSimilarThreads(ts, threshold) ==
    LET pairs == similarPairs(ts, threshold)
        title(i) == normTitle(ts[i].name)
        firstOf(k) == \A m \in 1..(k - 1) : title(pairs[m][1]) # title(pairs[k][1])
        keyAt == SelectSeq([k \in DOMAIN pairs |-> k], firstOf)
    IN  [c \in DOMAIN keyAt |->
           [key |-> title(pairs[keyAt[c]][1]),
            members |->
               LET mine == SelectSeq(pairs,
                              LAMBDA pr : title(pr[1]) = title(pairs[keyAt[c]][1]))
               IN  [m \in DOMAIN mine |-> mine[m][2]]]]

\* name.split(' - ')[0]: the part of the name before its first ' - '
beforeSeparator(name) ==
    LET seps == { i \in 1..(Len(name) - 2) : SubSeq(name, i, i + 2) = <<" ", "-", " ">> }
    IN  IF seps = {} THEN name
        ELSE SubSeq(name, 1, (CHOOSE i \in seps : \A j \in seps : i <= j) - 1)

\* ServerManager.extractGuildNameFromThreadName
extractGuildNameFromThreadName(name) == trim(beforeSeparator(name))

\* the decimal digits of a natural number
RECURSIVE digits(_)
digits(n) ==
    IF n < 10 THEN << DigitChars[n + 1] >>
    ELSE digits(n \div 10) \o << DigitChars[(n % 10) + 1] >>

\* DateTime.now().toFormat('yyyy-MM-dd HH:mm'): the text of the hour t
dateText(t) == digits(t)

\* `Similar Guild Names - ${originalTitle} - ${date}`
alertTitle(originalTitle, t) ==
    <<"S","i","m","i","l","a","r"," ","G","u","i","l","d"," ","N","a","m","e","s"," ","-"," ">>
        \o originalTitle \o <<" ", "-", " ">> \o dateText(t)

\* the message of an alert: the heading with the original title and one
\* line ` - ${thread.name} (ID: ${thread.id})` for every member
RECURSIVE memberLines(_, _, _)
memberLines(ts, members, k) ==
    IF k > Len(members) THEN << >>
    ELSE <<" ", "-", " ">> \o ts[members[k]].name \o <<" ","(","I","D",":"," ">>
            \o digits(ts[members[k]].id) \o <<")", "\n">>
            \o memberLines(ts, members, k + 1)

alertMessage(ts, cluster) ==
    <<"⚠"," ","*","*","P","o","t","e","n","t","i","a","l","l","y"," ","S","i","m","i","l","a","r"," ","G","u","i","l","d"," ","N","a","m","e","s"," ","F","o","u","n","d"," ","f","o","r",":"," ">>
        \o cluster.key \o <<"*", "*", "\n", "\n">>
        \o memberLines(ts, cluster.members, 1)

\* guildNames: the lower-cased extracted guild names of the members
guildNames(ts, cluster) ==
    { toLowerCase(extractGuildNameFromThreadName(ts[cluster.members[m]].name)) :
        m \in DOMAIN cluster.members }

\* the moderation thread names one of the guild names, in its title or in
\* one of its messages, whatever the letter case
references(modThread, names) ==
    \E guildName \in names :
        \/ includes(toLowerCase(modThread.name), guildName)
        \/ \E m \in DOMAIN modThread.messages :
              includes(toLowerCase(modThread.messages[m]), guildName)

\* a variant of shouldPost that looks at the titles of the moderation
\* threads only
shouldPost_titlesOnly(existingModThreads, names) ==
    ~\E k \in DOMAIN existingModThreads :
        \E guildName \in names :
            includes(toLowerCase(existingModThreads[k].name), guildName)

\* shouldPost: no moderation thread listed before the loop names a guild
\* name of the cluster
shouldPost(existingModThreads, names) ==
    ~\E k \in DOMAIN existingModThreads : references(existingModThreads[k], names)

(***************************************************************************)
(* The inputs the model is run on                                          *)
(***************************************************************************)
MaxRows        == 2   \* rows of an enumerated spreadsheet
MaxCycles      == 2   \* poll cycles
MaxFaults      == 1   \* platform calls that fail or time out

Now0 == 100           \* the hour of the first poll

gAb   == <<"A","b">>
gB    == <<"b">>
gApos == <<"A","'","b">>
gC    == <<"c">>
scX   == <<"x">>

\* rows: a fresh guild, the same guild too old, a guild whose name is part
\* of another's and that is exactly MAX_ENTRY_AGE_DAYS old, a guild name the
\* sanitizer changes, an unrecognised faction
RowList ==
    << Row(gAb,   Alliance,              scX, DateCell(Now0 - 10)),
       Row(gAb,   Alliance,              scX, DateCell(Now0 - 50)),
       Row(gB,    Horde \o <<" ">>,      scX, DateCell(Now0 - 24)),
       Row(gApos, Alliance,              scX, DateCell(Now0 - 10)),
       Row(gC,    toLowerCase(Alliance), scX, DateCell(Now0 - 10)) >>

RowUniverse == Range(RowList)

\* the sequences of at most n elements of S
RECURSIVE SeqsUpTo(_, _)
SeqsUpTo(S, n) ==
    IF n = 0 THEN { << >> }
    ELSE LET shorter == SeqsUpTo(S, n - 1)
         IN  shorter \cup { Append(q, x) : q \in shorter, x \in S }

Injective(q) == \A i, j \in DOMAIN q : q[i] = q[j] => i = j

\* the place of a row in RowList
Place(row) == CHOOSE k \in DOMAIN RowList : RowList[k] = row

\* the rows of q follow one another as in RowList, or all the other way round
OneWay(q) ==
    \/ \A i, j \in DOMAIN q : i < j => Place(q[i]) < Place(q[j])
    \/ \A i, j \in DOMAIN q : i < j => Place(q[i]) > Place(q[j])

\* the spreadsheets of at most MaxRows different rows: every choice of rows,
\* in the order of RowList and in the opposite order
SheetUniverse ==
    { q \in SeqsUpTo(RowUniverse, MaxRows) : Injective(q) /\ OneWay(q) }

\* a MAX_NEW_THREADS_PER_CYCLE entry in the record of the guild
StoredCap == 3

\* a bulk import: more new guilds than one cycle may post, of both factions
BulkSize == DefaultMaxNewThreads + 5

BulkSheet ==
    [i \in 1..BulkSize |->
        Row(<<"q", LowerChars[i]>>, IF i % 3 = 0 THEN Horde ELSE Alliance,
            scX, DateCell(Now0 - 10))]

\* the first rows of the bulk import, two more than StoredCap
CapSheet == SubSeq(BulkSheet, 1, StoredCap + 2)

\* a row without a guild name, followed by a fresh guild
BlankFirstSheet ==
    << Row(<< >>, Alliance, scX, DateCell(Now0 - 10)),
       Row(gAb,   Alliance, scX, DateCell(Now0 - 10)) >>

\* a guild and a second guild whose name is part of the first one's
rAb == Row(gAb, Alliance, scX, DateCell(Now0 - 10))
rB  == Row(gB, Horde \o <<" ">>, scX, DateCell(Now0 - 24))

SubNameSheet == << rAb, rB >>

\* one guild entered once for each faction
TwoFactionSheet == << rAb, Row(gAb, Horde, scX, DateCell(Now0 - 10)) >>

\* a guild whose timestamp cell is empty, does not parse, or is not there
\* (a ragged row), followed by a fresh guild
BadCells == {EmptyCell, GarbageCell, MissingCell}

BadStampSheet(cell) == << Row(gC, Alliance, scX, cell), rAb >>

\* titles and creation hours of the threads found at the first poll
tAb == [name |-> rowTitle(Row(gAb, Alliance, scX, EmptyCell)), createdAt |-> Now0 - 10]
tAB == [name |-> <<" ","<","A","B",">"," ","-"," ","X"," ">>,  createdAt |-> Now0 - 2]
tB  == [name |-> rowTitle(Row(gB, Horde, scX, EmptyCell)),     createdAt |-> Now0 - 20]
tC  == [name |-> rowTitle(Row(gC, Alliance, scX, EmptyCell)),    createdAt |-> Now0 - 10]
\* a thread exactly THREAD_AGE_LIMIT_HOURS old, and one without a creation date
tEdge   == [name |-> tAb.name, createdAt |-> Now0 - THREAD_AGE_LIMIT_HOURS]
tNoDate == [name |-> tAb.name, createdAt |-> NoDate]
tZ  == [name |-> <<"z","z">>,                                  createdAt |-> Now0 - 1]

tAlpha  == [name |-> <<"A","l","p","h","a">>,     createdAt |-> Now0 - 1]
tAlpha2 == [name |-> <<"a","l","p","h","a"," ">>, createdAt |-> Now0 - 1]
tAlpha3 == [name |-> <<" ","A","L","P","H","A">>, createdAt |-> Now0 - 1]
tBeta   == [name |-> <<"B","e","t","a">>,         createdAt |-> Now0 - 1]

\* what the two channels hold at the first poll, << alliance, horde >>:
\* nothing; a thread, a second one under its title in another letter case
\* and an older thread of another guild, with a thread no guild has in the
\* other channel; the four titles of the duplicate example
NoThreads    == << << >>, << >> >>
MixedThreads == << <<tAb, tAB, tB>>, <<tZ>> >>
AlphaThreads == << <<tAlpha, tAlpha2, tAlpha3, tBeta>>, << >> >>
AbThreads    == << <<tAb>>, << >> >>
CThreads     == << <<tC>>, << >> >>
EdgeThreads  == << <<tEdge>>, <<tNoDate>> >>

\* three guilds whose titles are similar in pairs, each pair at exactly 0.8
scCasual == <<"c","a","s","u","a","l">>
gAc == <<"A","c">>
gAd == <<"A","d">>

SimilarSheet ==
    << Row(gAb, Alliance, scCasual, DateCell(Now0 - 10)),
       Row(gAc, Alliance, scCasual, DateCell(Now0 - 10)),
       Row(gAd, Alliance, scCasual, DateCell(Now0 - 10)) >>

SimilarThreads ==
    << [i \in DOMAIN SimilarSheet |->
          [name |-> rowTitle(SimilarSheet[i]), createdAt |-> Now0 - 1]],
       << >> >>

\* a thread a moderator opened in the moderation channel: its message names
\* the second guild, in capitals; its title names no guild
ManualNote ==
    [name |-> <<"W","a","t","c","h","l","i","s","t">>,
     messages |-> << <<"s","e","e"," ","<","A","C",">"," ","p","l","e","a","s","e">> >>]

\* a guild with a text in the image column, followed by a fresh guild
ImageCells ==
    { TextCell(url) : url \in {<< >>, PageUrl, PngUrl, HtmlPngUrl, DownUrl, CutUrl} }

ImageSheet(cell) ==
    << WithImage(Row(gC, Alliance, scX, DateCell(Now0 - 10)), cell), rAb >>

\* a text of n characters
RECURSIVE LongText(_)
LongText(n) ==
    IF n = 0 THEN << >>
    ELSE LET half == LongText(n \div 2)
         IN  half \o half \o (IF n % 2 = 1 THEN << "x" >> ELSE << >>)

\* a guild whose description is n characters long, on its own or with a
\* thread of its own that is due for a repost
NoteSheet(n) ==
    << WithNote(Row(gC, Alliance, scX, DateCell(Now0 - 10)), TextCell(LongText(n))) >>

\* the lengths of the descriptions tried: a short one, one at the ceiling
\* of a field value and one over it
NoteLengths == {2, FieldValueLimit, FieldValueLimit + 1}

\* the columns the phases look up in the header row
RequiredColumns == {"Guild Name", "Timestamp", "Faction", "Guild Type"}

\* the first polls tried: every spreadsheet, and the one with the row
\* without a guild name, on empty channels and on the mixed threads; the
\* bulk import on empty channels; the duplicate example with the
\* spreadsheets of at most one row; the guild entered for both factions on
\* empty channels; the thread of a guild with the sheet that adds the guild
\* whose name is part of its name; the mixed threads with the row of their
\* guild under a header row that lacks one of the columns; a thread exactly
\* at the age limit and one without a creation date; the sheets with
\* a bad timestamp cell on empty channels and on the thread of that guild;
\* more rows than its cap under a record with a MAX_NEW_THREADS_PER_CYCLE entry; the
\* three guilds of similar titles, on an empty moderation channel and on one
\* with a moderator's note; the sheets with a text in the image column on
\* empty channels, and two of them on the thread of that guild, under a
\* header row with the image column, and the picture under a header row
\* without it; a guild with a description of each length of NoteLengths
\* under a header row with the 'Description' column, on empty channels and
\* on the thread of that guild.  The moderation channel is empty otherwise.
Scenarios ==
    { [setup |-> NoThreads, rows |-> q, headers |-> RequiredColumns, cap |-> 0, mod |-> << >>] :
        q \in SheetUniverse \cup {BulkSheet, BlankFirstSheet, TwoFactionSheet} }
    \cup { [setup |-> AbThreads, rows |-> SubNameSheet, headers |-> RequiredColumns, cap |-> 0, mod |-> << >>] }
    \cup { [setup |-> MixedThreads, rows |-> q, headers |-> RequiredColumns, cap |-> 0, mod |-> << >>] :
             q \in SheetUniverse \cup {BlankFirstSheet} }
    \cup { [setup |-> AlphaThreads, rows |-> q, headers |-> RequiredColumns, cap |-> 0, mod |-> << >>] :
             q \in { r \in SheetUniverse : Len(r) <= 1 } }
    \cup { [setup |-> MixedThreads, rows |-> << rAb >>,
            headers |-> RequiredColumns \ {column}, cap |-> 0, mod |-> << >>] : column \in RequiredColumns }
    \cup { [setup |-> EdgeThreads, rows |-> << rAb >>, headers |-> RequiredColumns, cap |-> 0, mod |-> << >>] }
    \cup { [setup |-> s, rows |-> BadStampSheet(cell), headers |-> RequiredColumns, cap |-> 0, mod |-> << >>] :
             s \in {NoThreads, CThreads}, cell \in BadCells }
    \cup { [setup |-> NoThreads, rows |-> CapSheet, headers |-> RequiredColumns,
            cap |-> StoredCap, mod |-> << >>] }
    \cup { [setup |-> SimilarThreads, rows |-> SimilarSheet, headers |-> RequiredColumns,
            cap |-> 0, mod |-> m] : m \in {<< >>, << ManualNote >>} }
    \cup { [setup |-> NoThreads, rows |-> ImageSheet(cell),
            headers |-> RequiredColumns \cup {ImageColumn}, cap |-> 0, mod |-> << >>] :
             cell \in ImageCells }
    \cup { [setup |-> CThreads, rows |-> ImageSheet(TextCell(url)),
            headers |-> RequiredColumns \cup {ImageColumn}, cap |-> 0, mod |-> << >>] :
             url \in {PngUrl, HtmlPngUrl} }
    \cup { [setup |-> NoThreads, rows |-> ImageSheet(TextCell(PngUrl)),
            headers |-> RequiredColumns, cap |-> 0, mod |-> << >>] }
    \cup { [setup |-> s, rows |-> NoteSheet(n),
            headers |-> RequiredColumns \cup {NoteColumn}, cap |-> 0, mod |-> << >>] :
             s \in {NoThreads, CThreads}, n \in NoteLengths }

\* the threads of a channel at the first poll, numbered from firstId
InitThreads(q, firstId) ==
    [i \in DOMAIN q |-> Thread(firstId + i - 1, q[i].name, q[i].createdAt)]

\* the poll intervals tried, in hours: none, and one that lets a new thread
\* reach THREAD_AGE_LIMIT_HOURS and a row of Now0 - 24 become too old
WaitSteps == {0, 3}

(***************************************************************************)
(* State                                                                   *)
(***************************************************************************)
VARIABLES
    sheet,      \* the rows getSpreadsheetData returns (without the header row)
    headers,    \* the required columns the header row names
    threads,    \* threads[ch]: the active threads of channel ch, enumerated
    modThreads, \* the active threads of the moderation channel, enumerated
    now,        \* the clock, in hours
    nextId,     \* the id the platform gives the next thread
    cycle,      \* the number of the poll cycle
    pc,         \* the position of pollServer: 0 idle, n the n-th task, 10 done,
                \* Hung in a call that never returns
    faults,     \* the platform calls that failed or timed out so far
    inflight,   \* calls of a timed-out race that still run in the background
    ops,        \* calls issued in this cycle, by phase and channel
    reposts,    \* reposts[c][ch]: deletes and creates issued by the repost of cycle c
    created34,  \* created34[ch]: cycles whose repost or post phase created in ch
    started,    \* the tasks of this cycle, in the order they started
    clean,      \* no call failed or timed out in this cycle so far
    prevClean,  \* the previous cycle ran to its end without a failed call
    prevEnd,    \* the titles and creation hours the previous cycle ended with
    pollInterval, \* POLL_INTERVAL_MS, in hours
    polled,     \* the guilds startPolling has polled in this round
    raced,      \* a 10 s or 15 s race has been lost so far
    last,       \* what the last task did
    passes,     \* the callbacks of setInterval that have not returned yet, each
                \* with the guild and the phase it awaits
    ticks,      \* the times the timer of setInterval has fired
    isPolling,  \* the flag of the guarded setInterval callback
    timerLast,  \* what the last step of an interval scheduler did
    userSelections, \* userSelections: the Alliance channel each user of the
                    \* setup menus has selected and not yet completed
    channelIds, \* the channel ids of the record of each guild in the file
    selectors,  \* the users who have selected an Alliance channel so far
    menus,      \* the selections made in the setup menus so far
    menuLast    \* what the last selection in a setup menu did

vars == << sheet, headers, stored, used, atStart, threads, modThreads, now, nextId, cycle, pc, faults, inflight, ops,
           reposts, created34, started, clean, prevClean, prevEnd, pollInterval,
           polled, raced, last, passes, ticks, isPolling, timerLast,
           userSelections, channelIds, selectors, menus, menuLast >>

\* the variables of the setup menus
menuVars == << userSelections, channelIds, selectors, menus, menuLast >>

\* the variables of the interval schedulers
timerVars == << passes, ticks, isPolling, timerLast >>

\* the variables of the engine and of the scheduler of its polls
engineVars ==
    << sheet, headers, stored, used, atStart, threads, modThreads, now, nextId,
       cycle, pc, faults, inflight, ops, reposts, created34, started, clean,
       prevClean, prevEnd, pollInterval, polled, raced, last >>

\* the titles and creation hours of the threads of both channels
Snapshot(thr) ==
    [ch \in Channels |->
        [k \in DOMAIN thr[ch] |->
            [name |-> thr[ch][k].name, createdAt |-> thr[ch][k].createdAt]]]

ZeroOps ==
    [dup  |-> [ch \in Channels |-> 0], unm |-> [ch \in Channels |-> 0],
     post |-> [ch \in Channels |-> 0]]

NoReposts == [ch \in Channels |-> [del |-> 0, create |-> 0]]

NoLast ==
    [phase |-> "none", ch |-> "none", before |-> [ch \in Channels |-> << >>],
     at |-> 0, selected |-> {}, failed |-> {}, chosen |-> 0, row |-> 0,
     outcome |-> "none", calls |-> << >>,
     clusters |-> << >>, posts |-> {}, modBefore |-> << >>, files |-> << >>,
     fields |-> << >>]

\* no interval scheduler runs: startPolling is a loop, not a timer
NoTimerLast ==
    [kind |-> "none", before |-> << >>, flag |-> FALSE, skipped |-> 0, threw |-> 0]

TimerOff ==
    /\ passes = << >>
    /\ ticks = 0
    /\ isPolling = FALSE
    /\ timerLast = NoTimerLast

\* the users, the guilds and the forum channels of the setup menus
MenuUsers == {1, 2}
MenuGuilds == {1, 2}
ForumChannelIds == {1, 2}

\* the empty string of a channel id that is not set, and the absent entry
\* of userSelections
NoChannel == 0
NoSelection == 0

\* the channel ids of the record readServerConfig returns for a guild
\* without a record
DefaultChannelIds ==
    [ALLIANCE_CHANNEL_ID |-> NoChannel, HORDE_CHANNEL_ID |-> NoChannel,
     MOD_CHANNEL_ID |-> NoChannel]

NoMenuLast ==
    [type |-> "none", user |-> 0, guild |-> 0, channelId |-> NoChannel,
     reply |-> "none", before |-> [g \in MenuGuilds |-> DefaultChannelIds],
     selections |-> [u \in MenuUsers |-> NoSelection]]

\* new Map(): no user has a selection, no guild has a record, no menu has
\* been used
MenuOff ==
    /\ userSelections = [u \in MenuUsers |-> NoSelection]
    /\ channelIds = [g \in MenuGuilds |-> DefaultChannelIds]
    /\ selectors = {}
    /\ menus = 0
    /\ menuLast = NoMenuLast

\* the engine before its first poll, with the inputs of scenario sc
EngineStart(sc) ==
    /\ sheet = sc.rows
    /\ headers = sc.headers
    /\ modThreads = sc.mod
    /\ stored = ServerConfig(sc.cap)
    /\ used = Config(ServerConfig(sc.cap))
    /\ atStart = ServerConfig(sc.cap)
    /\ threads = [ch \in Channels |->
                    IF ch = "alliance" THEN InitThreads(sc.setup[1], 1)
                    ELSE InitThreads(sc.setup[2], Len(sc.setup[1]) + 1)]
    /\ nextId = Len(sc.setup[1]) + Len(sc.setup[2]) + 1
    /\ now = Now0
    /\ cycle = 0
    /\ pc = 0
    /\ faults = 0
    /\ inflight = {}
    /\ ops = ZeroOps
    /\ reposts = << >>
    /\ created34 = [ch \in Channels |-> {}]
    /\ started = << >>
    /\ clean = TRUE
    /\ prevClean = FALSE
    /\ prevEnd = [ch \in Channels |-> << >>]
    /\ polled = {}
    /\ last = NoLast
    /\ raced = FALSE

Init ==
    /\ \E sc \in Scenarios : EngineStart(sc)
    /\ pollInterval \in WaitSteps
    /\ TimerOff
    /\ MenuOff

(***************************************************************************)
(* pollServer: the tasks of one poll, in the order they are awaited.       *)
(* repostOldestThread awaits handleReposting for the Alliance channel and  *)
(* then for the Horde channel; they are two steps of the model.            *)
(***************************************************************************)
\* a variant of PollTasks that posts the new entries before the unmatched
\* threads are removed
PollTasks_postFirst ==
    << [phase |-> "dup",       ch |-> "alliance"],
       [phase |-> "dup",       ch |-> "horde"],
       [phase |-> "post",      ch |-> "both"],
       [phase |-> "unmatched", ch |-> "alliance"],
       [phase |-> "unmatched", ch |-> "horde"],
       [phase |-> "repost",    ch |-> "alliance"],
       [phase |-> "repost",    ch |-> "horde"],
       [phase |-> "similar",   ch |-> "alliance"],
       [phase |-> "similar",   ch |-> "horde"] >>

PollTasks ==
    << [phase |-> "dup",       ch |-> "alliance"],
       [phase |-> "dup",       ch |-> "horde"],
       [phase |-> "unmatched", ch |-> "alliance"],
       [phase |-> "unmatched", ch |-> "horde"],
       [phase |-> "repost",    ch |-> "alliance"],
       [phase |-> "repost",    ch |-> "horde"],
       [phase |-> "post",      ch |-> "both"],
       [phase |-> "similar",   ch |-> "alliance"],
       [phase |-> "similar",   ch |-> "horde"] >>

AtTask(phase, ch) ==
    /\ pc \in DOMAIN PollTasks
    /\ PollTasks[pc] = [phase |-> phase, ch |-> ch]

\* the bookkeeping every task shares: the task is logged and the next one
\* is awaited
TaskDone(phase, ch) ==
    /\ started' = Append(started, [phase |-> phase, ch |-> ch])
    /\ pc' = pc + 1

\* a task may let k more calls fail while the fault budget lasts, and while
\* no other task of the same poll has had a failed call; the behaviours with
\* a setup command are the ones without a failed call
MayFail(k) ==
    \/ k = 0
    \/ /\ faults + k <= MaxFaults
       /\ clean
       /\ stored.THREAD_AGE_LIMIT_HOURS # SetupThreadAgeLimitHours

\* the position of a scheduler whose loop has ended
Stopped == -2

\* what keeps the poll of a guild from running its phases: readServerConfig
\* throws (the configuration file cannot be read or parsed), a channel of
\* the configuration is not in the cache (so for a guild without
\* configuration, whose channel ids are empty), a channel is no forum
\* channel, the construction of its ServerManager throws
GuildFailures ==
    {"configUnreadable", "channelMissing", "notForumChannel", "managerThrows"}

\* what `await pollServer(guild)` gives startPolling: pollServer returns
\* when a channel is missing and catches whatever its try block throws;
\* readServerConfig is called before the try block
pollServerResult(failure) ==
    IF failure = "configUnreadable" THEN "rejected" ELSE "returned"

\* startPolling polls the guild that comes before the modelled one in
\* client.guilds.cache: a guild whose poll fails.  startPolling has no try
\* block: a poll that rejects ends its loop.
PollOtherGuild ==
    /\ pc = 0
    /\ polled = {}
    /\ cycle < MaxCycles
    /\ \E failure \in GuildFailures :
          /\ IF pollServerResult(failure) = "returned"
             THEN pc' = pc /\ polled' = {"other"}
             ELSE pc' = Stopped /\ polled' = polled
          /\ last' = [NoLast EXCEPT !.phase = "otherGuild", !.outcome = failure,
                        !.at = now]
    /\ UNCHANGED << raced, sheet, threads, now, nextId, cycle, faults, inflight, ops,
                    reposts, created34, started, clean, prevClean, prevEnd,
                    pollInterval, headers, modThreads, stored, used, atStart,
                    passes, ticks, isPolling, timerLast,
                    userSelections, channelIds, selectors, menus, menuLast >>

\* startPolling enters pollServer for the guild; since the previous poll
\* the poll interval has gone by
StartPoll ==
    /\ pc = 0
    /\ polled = {"other"}
    /\ polled' = {"other", "main"}
    /\ cycle < MaxCycles
    /\ now' = IF cycle = 0 THEN now ELSE now + pollInterval
    /\ last' = [NoLast EXCEPT !.phase = "start", !.at = now']
    /\ cycle' = cycle + 1
    /\ pc' = 1
    /\ ops' = ZeroOps
    /\ reposts' = Append(reposts, NoReposts)
    /\ started' = << >>
    /\ clean' = TRUE
    /\ used' = pollConfig(stored, used)
    /\ atStart' = stored
    /\ UNCHANGED << sheet, threads, nextId, faults, inflight, created34,
                    prevClean, prevEnd, pollInterval, headers, modThreads, stored, raced,
                    passes, ticks, isPolling, timerLast,
                    userSelections, channelIds, selectors, menus, menuLast >>

\* a variant of deletedThreads in which the first delete that throws ends
\* the loop of the phase
deletedThreads_abortOnFailure(sel, failed) == IF failed = {} THEN sel ELSE {}

\* the threads the delete loop of a phase deletes: the try block sits inside
\* the loop, so a delete that throws is logged and the loop goes on
deletedThreads(sel, failed) == sel \ failed

\* removeDuplicateThreads(channel): every selected thread gets a delete; a
\* delete that throws is logged and the thread stays
RemoveDuplicateThreads(ch) ==
    /\ AtTask("dup", ch)
    /\ \E sel \in {duplicateThreads(threads[ch])} :
           \E failed \in SUBSET sel :
             /\ MayFail(Cardinality(failed))
             /\ threads' = [threads EXCEPT ![ch] = Without(@, deletedThreads(sel, failed))]
             /\ faults' = faults + Cardinality(failed)
             /\ clean' = (clean /\ failed = {})
             /\ ops' = [ops EXCEPT !.dup[ch] = @ + Cardinality(sel)]
             /\ last' = [NoLast EXCEPT !.phase = "dup", !.ch = ch,
                           !.before = threads, !.at = now,
                           !.selected = sel, !.failed = failed]
    /\ TaskDone("dup", ch)
    /\ UNCHANGED << raced, sheet, now, nextId, cycle, inflight, reposts, created34,
                    prevClean, prevEnd, pollInterval, headers, modThreads, stored, used, atStart, polled,
                    passes, ticks, isPolling, timerLast,
                    userSelections, channelIds, selectors, menus, menuLast >>

\* a variant of getSpreadsheetData in which a failed request gives the
\* header row without a row under it
getSpreadsheetData_headersOnly(fetched, hs, rows) ==
    [empty |-> FALSE, headers |-> hs, rows |-> IF fetched THEN rows ELSE << >>]

\* getSpreadsheetData: the grid of the sheet, its header row and the rows
\* under it; when the request fails, the catch returns the empty grid []
getSpreadsheetData(fetched, hs, rows) ==
    IF fetched THEN [empty |-> FALSE, headers |-> hs, rows |-> rows]
    ELSE [empty |-> TRUE, headers |-> {}, rows |-> << >>]

\* `headers = rows[0]` is undefined for the empty grid and headers.indexOf
\* throws a TypeError, which the catch of the phase logs
headersThrow(grid) == grid.empty

\* what a failed request of the sheet takes of the fault budget: all of it,
\* so that it is the only failure of its behaviour
fetchFault(fetched) == IF fetched THEN 0 ELSE MaxFaults

\* the columns a phase looks up in the header row and returns without when
\* one is not there: removeUnmatchedThreads the guild name and the timestamp,
\* handleReposting the guild name only, postNewEntries all four
columnsChecked(phase) ==
    IF phase = "unmatched" THEN {"Guild Name", "Timestamp"}
    ELSE IF phase = "repost" THEN {"Guild Name"}
    ELSE IF phase = "post" THEN RequiredColumns
    ELSE {}

\* the phase returns before it deletes or creates anything
returnsEarly(phase, hs) == ~(columnsChecked(phase) \subseteq hs)

\* the phase ends before it looks at a row: on the TypeError of the empty
\* grid, or on the return for a missing column
endsEarly(phase, grid) == headersThrow(grid) \/ returnsEarly(phase, grid.headers)

\* the scope handleThreadReposting falls back to without a 'Guild Type' column
Unknown == <<"U","n","k","n","o","w","n">>

\* the rows as handleReposting and handleThreadReposting read them under the
\* header row: row[headers.indexOf('Timestamp')] is undefined without the
\* column, and the scope is 'Unknown' without the 'Guild Type' column
rowsReposted(rows, hs) ==
    [i \in DOMAIN rows |->
        [rows[i] EXCEPT
            !.timestamp = IF "Timestamp" \in hs THEN @ ELSE MissingCell,
            !.scope     = IF "Guild Type" \in hs THEN @ ELSE Unknown]]

\* removeUnmatchedThreads(channel)
RemoveUnmatchedThreads(ch) ==
    /\ AtTask("unmatched", ch)
    /\ \E fetched \in BOOLEAN :
       \E grid \in {getSpreadsheetData(fetched, headers, sheet)} :
       \E sel \in {IF endsEarly("unmatched", grid) THEN {}
                   ELSE unmatchedThreads(threads[ch], grid.rows, now)} :
           \E failed \in SUBSET sel :
             /\ MayFail(Cardinality(failed) + fetchFault(fetched))
             /\ threads' = [threads EXCEPT ![ch] = Without(@, deletedThreads(sel, failed))]
             /\ faults' = faults + Cardinality(failed) + fetchFault(fetched)
             /\ clean' = (clean /\ failed = {} /\ fetched)
             /\ ops' = [ops EXCEPT !.unm[ch] = @ + Cardinality(sel)]
             /\ last' = [NoLast EXCEPT !.phase = "unmatched", !.ch = ch,
                           !.before = threads, !.at = now,
                           !.selected = sel, !.failed = failed,
                           !.outcome = IF fetched THEN "none" ELSE "noSheet"]
    /\ TaskDone("unmatched", ch)
    /\ UNCHANGED << raced, sheet, now, nextId, cycle, inflight, reposts, created34,
                    prevClean, prevEnd, pollInterval, headers, modThreads, stored, used, atStart, polled,
                    passes, ticks, isPolling, timerLast,
                    userSelections, channelIds, selectors, menus, menuLast >>

\* what may become of the one handleThreadReposting call of a channel:
\*   ok            the delete and the create succeed within the race
\*   deleteFails   thread.delete throws: caught, nothing is created
\*   createFails   the thread is deleted, createGuildRecruitmentThread
\*                 swallows the error of channel.threads.create
\*   timeoutDelete the 10 s race is lost while the delete is pending
\*   timeoutCreate the 10 s race is lost after the delete, before the create
RepostOutcomes == {"ok", "deleteFails", "createFails", "timeoutDelete", "timeoutCreate"}

Pending(kind, stage, ch, id, title) ==
    [kind |-> kind, stage |-> stage, ch |-> ch, id |-> id, title |-> title,
     cycle |-> cycle]

\* handleReposting(channel, config, manager); a behaviour loses at most
\* one race
RepostOldestThread(ch) ==
    /\ AtTask("repost", ch)
    /\ \E fetched \in BOOLEAN :
       \E grid \in {getSpreadsheetData(fetched, headers, sheet)} :
       \E seen \in {rowsReposted(grid.rows, grid.headers)} :
       \E c \in {IF endsEarly("repost", grid)
                 THEN [thread |-> 0, row |-> 0, threw |-> FALSE]
                 ELSE repostChoice(threads[ch], seen, now)} :
       \E outcome \in IF c.thread = 0 THEN {"ok"} ELSE RepostOutcomes :
       \E bad \in {(IF outcome = "ok" THEN 0 ELSE 1) + fetchFault(fetched)} :
       /\ MayFail(bad)
       /\ outcome \in TimedOut => ~raced
       /\ \E r \in {IF c.thread = 0 THEN [calls |-> << >>, threw |-> c.threw]
                 ELSE repostLoop(threads[ch], seen, now,
                                 staleSorted(threads[ch], now), 1, outcome, << >>)} :
         LET n        == Len(r.calls)
             old(k)   == threads[ch][r.calls[k].thread]
             title(k) == rowTitle(seen[r.calls[k].row])
             deleted  == IF outcome \in {"ok", "createFails", "timeoutCreate"}
                         THEN { old(k).id : k \in 1..n } ELSE {}
             made     == IF outcome = "ok"
                         THEN [k \in 1..n |-> Thread(nextId + k - 1, title(k), now)]
                         ELSE << >>
             created  == IF outcome \in {"ok", "createFails"} THEN n ELSE 0
         IN  /\ raced' = (raced \/ outcome \in TimedOut)
             /\ faults' = faults + bad
             /\ clean' = (clean /\ bad = 0)
             /\ threads' = [threads EXCEPT ![ch] = Without(@, deleted) \o made]
             /\ nextId' = nextId + Len(made)
             /\ inflight' = inflight \cup
                   { Pending("repost",
                             IF outcome = "timeoutDelete" THEN "delete" ELSE "create",
                             ch, old(k).id, title(k)) :
                       k \in IF outcome \in TimedOut THEN 1..n ELSE {} }
             /\ reposts' = [reposts EXCEPT ![cycle][ch] =
                              [del |-> @.del + n, create |-> @.create + created]]
             /\ created34' = [created34 EXCEPT ![ch] =
                                IF created > 0 THEN @ \cup {cycle} ELSE @]
             /\ last' = [NoLast EXCEPT !.phase = "repost", !.ch = ch,
                           !.before = threads, !.at = now,
                           !.chosen = IF n = 0 THEN 0 ELSE old(1).id,
                           !.row = c.row,
                           !.files = IF n > 0 /\ outcome \notin {"deleteFails", "timeoutDelete"}
                                     THEN generateMessageContent(headers,
                                              seen[r.calls[1].row]).files
                                     ELSE << >>,
                           !.fields = IF n > 0 /\ outcome \notin {"deleteFails", "timeoutDelete"}
                                      THEN generateMessageContent(headers,
                                               seen[r.calls[1].row]).fields
                                      ELSE << >>,
                           !.outcome = IF n > 0 THEN outcome
                                       ELSE IF ~fetched THEN "noSheet"
                                       ELSE IF r.threw THEN "threw" ELSE "none"]
    /\ TaskDone("repost", ch)
    /\ UNCHANGED << sheet, now, cycle, ops, prevClean, prevEnd, pollInterval, headers, modThreads, stored, used, atStart, polled,
                    passes, ticks, isPolling, timerLast,
                    userSelections, channelIds, selectors, menus, menuLast >>

\* what the platform may do to a creation call instead of creating the
\* thread: fail it, answer it with a rate limit, or leave it pending
CallFaults == {"error", "rateLimit", "timeout"}

\* the creation calls of a run of n that are tried as the one that fails or
\* times out: the first, the second and the last
FaultyCalls(n) == {1, 2, n} \cap (1..n)

\* postNewEntries(allianceChannel, hordeChannel)
PostNewEntries ==
    /\ AtTask("post", "both")
    /\ \E fetched \in BOOLEAN :
       \E grid \in {getSpreadsheetData(fetched, headers, sheet)} :
       \E posted \in {IF endsEarly("post", grid) THEN << >> ELSE grid.rows} :
       \E allOk \in {postCalls(threads, posted, headers, now, NoFault)} :
           \E oracle \in {NoFault} \cup
                 { [at |-> k, kind |-> kd] :
                     k \in FaultyCalls(Len(allOk.calls)), kd \in CallFaults } :
           /\ MayFail((IF oracle = NoFault THEN 0 ELSE 1) + fetchFault(fetched))
           /\ oracle.kind \in TimedOut => ~raced
           /\ \E r \in {postCalls(threads, posted, headers, now, oracle)} :
             LET on(ch) == { n \in DOMAIN r.calls : r.calls[n].ch = ch }
             IN  /\ raced' = (raced \/ oracle.kind \in TimedOut)
                 /\ faults' = faults + (IF oracle = NoFault THEN 0 ELSE 1)
                                     + fetchFault(fetched)
                 /\ clean' = (clean /\ oracle = NoFault /\ fetched)
                 /\ threads' = [ch \in Channels |->
                                  afterCalls(threads[ch], r.calls, ch, nextId, now)]
                 /\ nextId' = nextId + Len(r.calls)
                 /\ inflight' = inflight \cup
                       { Pending("post", "create", r.calls[n].ch, 0, r.calls[n].title) :
                           n \in { k \in DOMAIN r.calls : r.calls[k].outcome = "timeout" } }
                 /\ ops' = [ops EXCEPT !.post =
                              [ch \in Channels |-> @[ch] + Cardinality(on(ch))]]
                 /\ created34' = [ch \in Channels |->
                                    IF on(ch) # {} THEN created34[ch] \cup {cycle}
                                    ELSE created34[ch]]
                 /\ last' = [NoLast EXCEPT !.phase = "post", !.ch = "both",
                               !.before = threads, !.at = now,
                               !.outcome = IF ~fetched THEN "noSheet"
                                           ELSE IF r.threw THEN "threw" ELSE "none",
                               !.calls = r.calls]
    /\ TaskDone("post", "both")
    /\ UNCHANGED << sheet, now, cycle, reposts, prevClean, prevEnd, pollInterval, headers, modThreads, stored, used, atStart, polled,
                    passes, ticks, isPolling, timerLast,
                    userSelections, channelIds, selectors, menus, menuLast >>

\* checkAndPostSimilarThreads(channel): it reads the faction channel and
\* writes to the moderation channel only
\* It has no try block of its own: when its listing of the threads rejects,
\* the error leaves the phase, executePollingTask throws it on and the catch
\* of pollServer ends the poll.
CheckAndPostSimilarThreads(ch) ==
    /\ AtTask("similar", ch)
    /\ \E found \in {findSimilarThreads(threads[ch], AlertThreshold)} :
       \E outcome \in {"ok", "throws", "createFails"} :
          LET clusters == IF outcome = "throws" THEN << >> ELSE found
              posts    == { c \in DOMAIN clusters :
                              shouldPost(modThreads, guildNames(threads[ch], clusters[c])) }
              \* with createFails the first modChannel.threads.create throws
              made     == SelectSeq([c \in DOMAIN clusters |-> c],
                              LAMBDA c : /\ c \in posts
                                         /\ outcome = "createFails"
                                              => \E d \in posts : d < c)
          IN  /\ MayFail(IF outcome = "ok" THEN 0 ELSE 1)
              /\ outcome = "createFails" => posts # {}
              /\ faults' = faults + (IF outcome = "ok" THEN 0 ELSE 1)
              /\ clean' = (clean /\ outcome = "ok")
              /\ pc' = IF outcome # "throws" THEN pc + 1
                       ELSE IF pollServerResult("phaseThrows") = "returned"
                            THEN Len(PollTasks) + 1
                            ELSE Stopped
              /\ modThreads' = modThreads \o
                    [k \in DOMAIN made |->
                        [name |-> alertTitle(clusters[made[k]].key, now),
                         messages |-> << alertMessage(threads[ch], clusters[made[k]]) >>]]
              /\ last' = [NoLast EXCEPT !.phase = "similar", !.ch = ch,
                            !.before = threads, !.at = now, !.outcome = outcome,
                            !.clusters = clusters, !.posts = posts,
                            !.modBefore = modThreads]
    /\ started' = Append(started, [phase |-> "similar", ch |-> ch])
    /\ UNCHANGED << raced, sheet, threads, now, nextId, cycle, inflight, ops,
                    reposts, created34, prevClean, prevEnd, pollInterval, headers,
                    stored, used, atStart, polled,
                    passes, ticks, isPolling, timerLast,
                    userSelections, channelIds, selectors, menus, menuLast >>

\* the position of a poll that awaits a call for good
Hung == -1

\* the phases that begin with `await channel.threads.fetchActive()` and no
\* timeout: removeDuplicateThreads, removeUnmatchedThreads, postNewEntries
\* (in fetchAndFilterThreads) and checkAndPostSimilarThreads.  handleReposting
\* races its fetch and its repost against 10 s timers.
UntimedPhases == {"dup", "unmatched", "post", "similar"}

\* the platform never answers the listing of the threads: the await never
\* returns, and nothing of the poll runs after it
CallNeverReturns ==
    /\ pc \in DOMAIN PollTasks
    /\ PollTasks[pc].phase \in UntimedPhases
    /\ MayFail(1)
    /\ faults' = faults + 1
    /\ clean' = FALSE
    /\ started' = Append(started, PollTasks[pc])
    /\ pc' = Hung
    /\ last' = [NoLast EXCEPT !.phase = "hung", !.ch = PollTasks[pc].ch,
                  !.before = threads, !.at = now]
    /\ UNCHANGED << raced, sheet, threads, now, nextId, cycle, inflight, ops,
                    reposts, created34, prevClean, prevEnd, pollInterval, headers, modThreads, stored, used, atStart, polled,
                    passes, ticks, isPolling, timerLast,
                    userSelections, channelIds, selectors, menus, menuLast >>

\* a call that lost its race goes on in the background and may complete at
\* any later time: the delete of a repost is followed by its create, a
\* create makes its thread.  A call that fails instead, or never returns,
\* is one that stays in inflight for good.
Background ==
    \E op \in inflight :
      /\ IF op.stage = "delete"
         THEN /\ op.id \in Ids(threads[op.ch])
              /\ threads' = [threads EXCEPT ![op.ch] = Without(@, {op.id})]
              /\ inflight' = (inflight \ {op}) \cup {[op EXCEPT !.stage = "create"]}
              /\ UNCHANGED << nextId, reposts, created34 >>
         ELSE /\ inflight' = inflight \ {op}
              /\ threads' = [threads EXCEPT ![op.ch] =
                               Append(@, Thread(nextId, op.title, now))]
              /\ nextId' = nextId + 1
              /\ reposts' = IF op.kind = "repost"
                            THEN [reposts EXCEPT ![op.cycle][op.ch].create = @ + 1]
                            ELSE reposts
              /\ created34' = [created34 EXCEPT ![op.ch] = @ \cup {op.cycle}]
      /\ last' = [NoLast EXCEPT !.phase = "background", !.ch = op.ch,
                    !.before = threads, !.at = now]
      /\ UNCHANGED << raced, sheet, now, cycle, pc, faults, ops, started, clean,
                      prevClean, prevEnd, pollInterval, headers, modThreads, stored, used, atStart, polled,
                    passes, ticks, isPolling, timerLast,
                    userSelections, channelIds, selectors, menus, menuLast >>

\* the setuptimers command: it reads the record of the guild, sets the two
\* timers and saves the record, without an await in between; a behaviour has
\* one such command, which changes the thread age limit, at any time of a
\* behaviour in which no platform call has failed
SetupTimers ==
    /\ stored.THREAD_AGE_LIMIT_HOURS # SetupThreadAgeLimitHours
    /\ faults = 0
    /\ stored' = [stored EXCEPT !.THREAD_AGE_LIMIT_HOURS = SetupThreadAgeLimitHours]
    /\ UNCHANGED << sheet, headers, modThreads, used, atStart, threads, now, nextId, cycle, pc,
                    faults, inflight, ops, reposts, created34, started, clean,
                    prevClean, prevEnd, pollInterval, polled, raced, last,
                    passes, ticks, isPolling, timerLast,
                    userSelections, channelIds, selectors, menus, menuLast >>

\* pollServer returns and startPolling goes on to its sleep
EndPoll ==
    /\ pc = Len(PollTasks) + 1
    /\ pc' = 0
    /\ prevClean' = clean
    /\ prevEnd' = Snapshot(threads)
    /\ polled' = {}
    /\ last' = [NoLast EXCEPT !.phase = "wait", !.at = now]
    /\ UNCHANGED << raced, sheet, threads, now, nextId, cycle, faults, inflight, ops,
                    reposts, created34, started, clean, pollInterval, headers, modThreads, stored, used, atStart,
                    passes, ticks, isPolling, timerLast,
                    userSelections, channelIds, selectors, menus, menuLast >>

Next ==
    \/ PollOtherGuild
    \/ StartPoll
    \/ \E ch \in Channels : RemoveDuplicateThreads(ch)
    \/ \E ch \in Channels : RemoveUnmatchedThreads(ch)
    \/ \E ch \in Channels : RepostOldestThread(ch)
    \/ PostNewEntries
    \/ \E ch \in Channels : CheckAndPostSimilarThreads(ch)
    \/ CallNeverReturns
    \/ Background
    \/ SetupTimers
    \/ EndPoll

Spec == Init /\ [][Next]_vars

(***************************************************************************)
(* The interval schedulers of index.ts.  Both hand an async callback to    *)
(* setInterval: the timer fires whether or not an earlier callback has     *)
(* returned, and a callback runs until its next await.  A pass is a        *)
(* callback that has not returned: [guild, at], the guild it polls and     *)
(* the phase it awaits.  The phases themselves are those of the engine     *)
(* above; here only their beginning and their end count.                   *)
(***************************************************************************)
MaxTicks   == 4   \* the times the timer fires in a behaviour
MaxOverlap == 2   \* the callbacks of pollAllServers that run at a time
NumGuilds  == 2   \* the guilds of client.guilds.cache

\* the awaits of one poll: removeUnmatchedThreads(allianceChannel),
\* removeUnmatchedThreads(hordeChannel), repostOldestThread, postNewEntries
IntervalPhases == << "unmatchedAlliance", "unmatchedHorde", "repost", "post" >>

Pass(guild, at) == [guild |-> guild, at |-> at]

\* the passes with the p-th replaced by the passes of `by` (one or none)
Splice(q, p, by) == SubSeq(q, 1, p - 1) \o by \o SubSeq(q, p + 1, Len(q))

\* what an awaited phase may do
PhaseOutcomes == {"returns", "throws"}

\* the engine stands still under the interval schedulers
EngineOff ==
    /\ EngineStart([setup |-> NoThreads, rows |-> << >>,
                    headers |-> RequiredColumns, cap |-> 0, mod |-> << >>])
    /\ pollInterval = 0

\* client.once('ready'): the timer is set and has not fired yet, and no
\* menu has been used
TimerInit == EngineOff /\ TimerOff /\ MenuOff

\* what the guilds of the cache meet when their poll is entered: a failure
\* of GuildFailures, or none
GuildStates == [1..NumGuilds -> GuildFailures \cup {"none"}]

\* pollAllServers from guild g on, up to its next await: pollServer(guild)
\* returns at once for a guild whose channels are not found and the loop
\* goes on to the next guild; a configuration file that cannot be read makes
\* pollServer reject, which ends the pass; else the pass awaits the first
\* phase of the guild.  The passes it leaves: one, or none when it ends.
RECURSIVE pollFrom(_, _)
pollFrom(g, meets) ==
    IF g > NumGuilds THEN << >>
    ELSE IF meets[g] = "none" THEN << Pass(g, 1) >>
    ELSE IF pollServerResult(meets[g]) = "returned" THEN pollFrom(g + 1, meets)
    ELSE << >>

\* the pass when its awaited phase is over: a phase that returns is followed
\* by the next one of the guild; after the last one, and when a phase
\* throws (the catch of pollServer), pollAllServers goes on to the next guild
pollServerStep(pass, outcome, meets) ==
    IF outcome = "returns" /\ pass.at < Len(IntervalPhases)
    THEN << Pass(pass.guild, pass.at + 1) >>
    ELSE pollFrom(pass.guild + 1, meets)

\* setInterval(async () => { await pollAllServers() }, pollIntervalMs):
\* the timer fires and the callback runs pollAllServers up to its first
\* await
IntervalTick ==
    /\ ticks < MaxTicks
    /\ Len(passes) < MaxOverlap
    /\ ticks' = ticks + 1
    /\ \E meets \in GuildStates : passes' = passes \o pollFrom(1, meets)
    /\ timerLast' = [timerLast EXCEPT !.kind = "tick", !.before = passes]
    /\ UNCHANGED isPolling
    /\ UNCHANGED engineVars
    /\ UNCHANGED menuVars

\* the awaited phase of the p-th pass returns or throws, and the pass goes
\* on to its next await
PassStep(p) ==
    /\ \E outcome \in PhaseOutcomes : \E meets \in GuildStates :
          /\ passes' = Splice(passes, p, pollServerStep(passes[p], outcome, meets))
          /\ timerLast' = [timerLast EXCEPT !.kind = "step", !.before = passes,
                             !.threw = IF outcome = "throws" THEN @ + 1 ELSE @]
    /\ UNCHANGED << ticks, isPolling >>
    /\ UNCHANGED engineVars
    /\ UNCHANGED menuVars

IntervalNext ==
    \/ IntervalTick
    \/ \E p \in DOMAIN passes : PassStep(p)

IntervalSpec == TimerInit /\ [][IntervalNext]_vars

(***************************************************************************)
(* The guarded interval scheduler: one guild, whose channels are looked up *)
(* once; the callback returns at once while isPolling is set, and its      *)
(* finally block clears the flag.                                          *)
(***************************************************************************)
\* a variant of pollingBlocked that lets every tick through
pollingBlocked_never(flag) == FALSE

\* `if (isPolling) return`
pollingBlocked(flag) == flag

\* the callback from `isPolling = true` up to its next await: a phase that
\* returns is followed by the next one; after the last one, and when a
\* phase throws (catch), the callback ends
guardedStep(pass, outcome) ==
    IF outcome = "returns" /\ pass.at < Len(IntervalPhases)
    THEN << Pass(pass.guild, pass.at + 1) >>
    ELSE << >>

\* `finally { isPolling = false }`: the flag when the callback goes on to
\* the passes of `by`, none when it has ended
flagAfter(flag, by) == IF by = << >> THEN FALSE ELSE flag

\* the timer fires: the callback returns while isPolling is set, else it
\* sets the flag and awaits the first phase
GuardedTick ==
    /\ ticks < MaxTicks
    /\ ticks' = ticks + 1
    /\ IF pollingBlocked(isPolling)
       THEN /\ UNCHANGED << passes, isPolling >>
            /\ timerLast' = [timerLast EXCEPT !.kind = "tick", !.before = passes,
                               !.flag = isPolling, !.skipped = @ + 1]
       ELSE /\ isPolling' = TRUE
            /\ passes' = Append(passes, Pass(1, 1))
            /\ timerLast' = [timerLast EXCEPT !.kind = "tick", !.before = passes,
                               !.flag = isPolling]
    /\ UNCHANGED engineVars
    /\ UNCHANGED menuVars

\* the awaited phase of the p-th callback returns or throws
GuardedStep(p) ==
    /\ \E outcome \in PhaseOutcomes :
          LET by == guardedStep(passes[p], outcome)
          IN  /\ passes' = Splice(passes, p, by)
              /\ isPolling' = flagAfter(isPolling, by)
              /\ timerLast' = [timerLast EXCEPT !.kind = "step", !.before = passes,
                                 !.flag = isPolling,
                                 !.threw = IF outcome = "throws" THEN @ + 1 ELSE @]
    /\ UNCHANGED ticks
    /\ UNCHANGED engineVars
    /\ UNCHANGED menuVars

GuardedNext ==
    \/ GuardedTick
    \/ \E p \in DOMAIN passes : GuardedStep(p)

GuardedSpec == TimerInit /\ [][GuardedNext]_vars

(***************************************************************************)
(* The setup menus                                                         *)
(*                                                                         *)
(* The handler of interactionCreate for a selection in a string select     *)
(* menu.  The value of an option is `<type>_<channel id>`; the menus stay  *)
(* usable after they were shown, so any user may select in any of them at  *)
(* any time.  The engine and the interval schedulers stand still.          *)
(***************************************************************************)
MaxSelections == 4

\* the types of the menu options, and one the handler does not know
MenuTypes == {"alliance", "horde", "mod", "other"}

\* a variant of hasSelection that finds a selection for every user
hasSelection_always(selections, userId) == TRUE

\* userSelections.get(userId) is an object: `if (!selection)` is false
hasSelection(selections, userId) == selections[userId] # NoSelection

\* the branch of the handler for one selection: the record of the guild as
\* it is saved (or left), userSelections after it, and the reply
selectMenu(type, userId, channelId, serverConfig, selections) ==
    IF type = "alliance"
    THEN [config |-> [serverConfig EXCEPT !.ALLIANCE_CHANNEL_ID = channelId],
          selections |-> [selections EXCEPT ![userId] = channelId],
          reply |-> "allianceUpdated"]
    ELSE IF type = "horde"
    THEN IF ~hasSelection(selections, userId)
         THEN [config |-> serverConfig, selections |-> selections,
               reply |-> "needAlliance"]
         ELSE [config |-> [serverConfig EXCEPT !.HORDE_CHANNEL_ID = channelId],
               selections |-> selections,
               reply |-> "hordeUpdated"]
    ELSE IF type = "mod"
    THEN [config |-> [serverConfig EXCEPT !.MOD_CHANNEL_ID = channelId],
          selections |-> [selections EXCEPT ![userId] = NoSelection],
          reply |-> "complete"]
    ELSE [config |-> serverConfig, selections |-> selections, reply |-> "invalid"]

\* a user selects an option of a menu in a guild
SelectMenu(userId, guild, type, channelId) ==
    /\ menus < MaxSelections
    /\ LET r == selectMenu(type, userId, channelId,
                           readServerConfig(channelIds[guild]), userSelections)
       IN  /\ channelIds' = [channelIds EXCEPT ![guild] = r.config]
           /\ userSelections' = r.selections
           /\ menuLast' = [type |-> type, user |-> userId, guild |-> guild,
                           channelId |-> channelId, reply |-> r.reply,
                           before |-> channelIds, selections |-> userSelections]
    /\ selectors' = IF type = "alliance" THEN selectors \cup {userId} ELSE selectors
    /\ menus' = menus + 1
    /\ UNCHANGED engineVars
    /\ UNCHANGED timerVars

MenuNext ==
    \E userId \in MenuUsers, guild \in MenuGuilds, type \in MenuTypes,
       channelId \in ForumChannelIds :
        SelectMenu(userId, guild, type, channelId)

MenuSpec == TimerInit /\ [][MenuNext]_vars

(***************************************************************************)
(* Properties of the phases.  They look at `last`, the record of what the  *)
(* last task did to the threads it found in last.before at hour last.at.   *)
(***************************************************************************)
CycleDone == pc = Len(PollTasks) + 1

\* the threads the last task found in its channel
Before == last.before[last.ch]

\* loose containment: the trimmed, lower-cased title of the thread contains
\* the trimmed, lower-cased guild name of the row
NameInTitle(row, thread) ==
    includes(toLowerCase(trim(thread.name)), toLowerCase(trim(row.guildName)))

HasGuildName(row) == trim(row.guildName) # << >>

HasTimestamp(row) == row.timestamp.kind \notin {"empty", "missing"}

\* the entry of the row is older than MAX_ENTRY_AGE_DAYS at hour t
RowTooOld(row, t) ==
    /\ row.timestamp.kind = "date"
    /\ t - row.timestamp.at > MAX_ENTRY_AGE_DAYS * HoursPerDay

SheetRows == { sheet[i] : i \in DOMAIN sheet }

\* the order of the phases of one poll
PhaseOrder ==
    << [phase |-> "dup",       ch |-> "alliance"],
       [phase |-> "dup",       ch |-> "horde"],
       [phase |-> "unmatched", ch |-> "alliance"],
       [phase |-> "unmatched", ch |-> "horde"],
       [phase |-> "repost",    ch |-> "alliance"],
       [phase |-> "repost",    ch |-> "horde"],
       [phase |-> "post",      ch |-> "both"],
       [phase |-> "similar",   ch |-> "alliance"],
       [phase |-> "similar",   ch |-> "horde"] >>

\* C1: in one poll the phases start in the fixed order duplicate removal
\* (Alliance, Horde), unmatched removal (Alliance, Horde), repost, post new
\* entries, similar-name alert (Alliance, Horde); and when duplicate or
\* unmatched removal issues a delete in a channel, neither the repost nor
\* the new-entry phase of that cycle has issued a create in that channel.
C1_PhasesInOrder ==
    /\ Len(started) <= Len(PhaseOrder)
    /\ started = SubSeq(PhaseOrder, 1, Len(started))
    /\ (last.phase \in {"dup", "unmatched"} /\ last.selected # {})
          => cycle \notin created34[last.ch]

\* a poll has run all its phases, and in one channel it both deleted in
\* phase 1 or 2 and created in phase 3 or 4
C1_Witness ==
    /\ CycleDone
    /\ started = PhaseOrder
    /\ \E ch \in Channels : /\ ops.dup[ch] + ops.unm[ch] > 0
                            /\ cycle \in created34[ch]

\* C2: after a complete cycle in which no call failed, a second cycle on the
\* same spreadsheet with no time elapsed issues no delete in phases 1 and 2
\* and no create in phase 4 (the one repost per channel is all it may do).
C2_SecondCycleIdle ==
    (/\ cycle >= 2
     /\ CycleDone
     /\ prevClean
     /\ clean
     /\ pollInterval = 0
     /\ ~raced)
       => \A ch \in Channels :
             ops.dup[ch] = 0 /\ ops.unm[ch] = 0 /\ ops.post[ch] = 0

\* C3, as the specification words it: removeUnmatchedThreads selects every
\* thread whose title contains no row's guild name, and every thread whose
\* title contains the guild name of a row that is too old, whatever the
\* other rows are.
C3_DeletesWhateverOtherRows ==
    last.phase = "unmatched" =>
        \A i \in DOMAIN Before :
            (\/ ~\E row \in SheetRows : NameInTitle(row, Before[i])
             \/ \E row \in SheetRows : /\ HasGuildName(row)
                                       /\ NameInTitle(row, Before[i])
                                       /\ RowTooOld(row, last.at))
               => Before[i].id \in last.selected

\* the phase got the grid of the sheet: its request did not fail
SheetRead == last.outcome # "noSheet"

\* C3, amended: under a header row with the guild name and the timestamp
\* columns that the phase got, removeUnmatchedThreads selects every thread whose title contains
\* the guild name of no row that has a non-empty guild name, a timestamp and
\* an entry that is not too old.
C3_DeletesUnmatched ==
    (/\ last.phase = "unmatched"
     /\ SheetRead
     /\ {"Guild Name", "Timestamp"} \subseteq headers) =>
        \A i \in DOMAIN Before :
            (~\E row \in SheetRows : /\ HasGuildName(row)
                                     /\ HasTimestamp(row)
                                     /\ ~RowTooOld(row, last.at)
                                     /\ NameInTitle(row, Before[i]))
               => Before[i].id \in last.selected

\* a thread is selected although a row names its guild: the row is too old
C3_Witness ==
    /\ last.phase = "unmatched"
    /\ \E i \in DOMAIN Before :
          /\ Before[i].id \in last.selected
          /\ \E row \in SheetRows : /\ HasGuildName(row)
                                    /\ NameInTitle(row, Before[i])
                                    /\ RowTooOld(row, last.at)

\* C4, as the specification words it: removeUnmatchedThreads never selects
\* a thread whose trimmed, lower-cased title contains the trimmed,
\* lower-cased guild name of a row that has a timestamp and is not too old.
C4_KeepsAnyFreshMatch ==
    last.phase = "unmatched" =>
        \A i \in DOMAIN Before :
            (\E row \in SheetRows : /\ HasTimestamp(row)
                                    /\ ~RowTooOld(row, last.at)
                                    /\ NameInTitle(row, Before[i]))
               => Before[i].id \notin last.selected

\* C4, amended: removeUnmatchedThreads never selects a thread whose trimmed,
\* lower-cased title contains the trimmed, lower-cased guild name of a row
\* that has a non-empty guild name, a timestamp and is not too old.
C4_KeepsFreshMatch ==
    last.phase = "unmatched" =>
        \A i \in DOMAIN Before :
            (\E row \in SheetRows : /\ HasGuildName(row)
                                    /\ HasTimestamp(row)
                                    /\ ~RowTooOld(row, last.at)
                                    /\ NameInTitle(row, Before[i]))
               => Before[i].id \notin last.selected

\* a thread is kept by a loose match: its title is not the guild name of the
\* fresh row but contains it, in another letter case
C4_Witness ==
    /\ last.phase = "unmatched"
    /\ \E i \in DOMAIN Before :
          /\ Before[i].id \notin last.selected
          /\ \E row \in SheetRows :
                /\ HasGuildName(row) /\ HasTimestamp(row)
                /\ ~RowTooOld(row, last.at)
                /\ NameInTitle(row, Before[i])
                /\ ~includes(Before[i].name, row.guildName)

\* the threads of ts under the normalised title of thread th
SameTitle(ts, th) ==
    { k \in DOMAIN ts : normTitle(ts[k].name) = normTitle(th.name) }

Names(ts) == [k \in DOMAIN ts |-> ts[k].name]

AlphaTitles == << tAlpha.name, tAlpha2.name, tAlpha3.name, tBeta.name >>

\* C5: after removeDuplicateThreads ran with every delete succeeding,
\* exactly one thread is left for each trimmed, lower-cased title, and it is
\* the first of its group in the enumeration; a thread whose normalised
\* title is unique is never selected; of the titles "Alpha", "alpha ",
\* " ALPHA", "Beta" exactly 2 threads survive.
C5_FirstOfGroupSurvives ==
    last.phase = "dup" =>
        LET after == threads[last.ch]
        IN  /\ \A i \in DOMAIN Before :
                 /\ last.failed = {} =>
                      LET group == SameTitle(Before, Before[i])
                          first == CHOOSE k \in group : \A j \in group : k <= j
                          left  == SameTitle(after, Before[i])
                      IN  /\ Cardinality(left) = 1
                          /\ \A k \in left : after[k].id = Before[first].id
                 /\ SameTitle(Before, Before[i]) = {i}
                      => Before[i].id \notin last.selected
            /\ (last.failed = {} /\ Names(Before) = AlphaTitles) => Len(after) = 2

\* the four titles of the example went through the phase, and the first
\* "Alpha" and "Beta" are left
C5_Witness ==
    /\ last.phase = "dup"
    /\ last.failed = {}
    /\ Names(Before) = AlphaTitles
    /\ Names(threads[last.ch]) = << tAlpha.name, tBeta.name >>

\* C6: the repost phase of one cycle issues at most one thread delete and
\* at most one thread creation per faction channel, whatever the number of
\* threads past the age limit, and whether or not the repost fails or times
\* out.
C6_OneRepostPerChannel ==
    \A c \in DOMAIN reposts : \A ch \in Channels :
        reposts[c][ch].del <= 1 /\ reposts[c][ch].create <= 1

\* the row of a stale thread a repost could use
Repostable(thread, t) ==
    /\ thread.createdAt # NoDate
    /\ t - thread.createdAt >= atStart.THREAD_AGE_LIMIT_HOURS
    /\ \E row \in SheetRows : /\ HasGuildName(row)
                              /\ NameInTitle(row, thread)
                              /\ ~RowTooOld(row, t)

\* a repost lost its race in a channel that held two threads to repost
C6_Witness ==
    /\ last.phase = "repost"
    /\ last.outcome \in TimedOut
    /\ Cardinality({ i \in DOMAIN Before : Repostable(Before[i], last.at) }) >= 2

\* C7: the repost phase chooses the thread created earliest among the
\* threads of the channel that are at least THREAD_AGE_LIMIT_HOURS old and
\* whose title contains the guild name of some row that is not too old; when
\* there is no such thread it deletes and creates nothing.
C7_OldestRepostableChosen ==
    last.phase = "repost" =>
        LET eligible == { i \in DOMAIN Before : Repostable(Before[i], last.at) }
        IN  IF eligible = {} THEN last.chosen = 0
            ELSE \E i \in eligible :
                    /\ Before[i].id = last.chosen
                    /\ \A j \in eligible : Before[i].createdAt <= Before[j].createdAt

\* C8: a thread the repost phase deleted is replaced, when the phase returns
\* for the channel, by a new thread of that channel under the title of the
\* deleted thread.
C8_DeletedIsReplaced ==
    (/\ last.phase = "repost"
     /\ last.chosen # 0
     /\ last.chosen \notin Ids(threads[last.ch]))
       => \E k \in DOMAIN threads[last.ch] :
             /\ threads[last.ch][k].id \notin Ids(Before)
             /\ \E i \in DOMAIN Before :
                   /\ Before[i].id = last.chosen
                   /\ threads[last.ch][k].name = Before[i].name

\* C9: one run of postNewEntries makes at most maxNewThreadsPerCycle (10)
\* creation calls; on the sheet of 15 new guilds the first cycle makes
\* exactly 10 calls unless a call times out or the sheet could not be
\* fetched, 5 rows get no call, and they get theirs in the next cycle.
C9_PostCap ==
    last.phase = "post" =>
        LET noTimeout == \A n \in DOMAIN last.calls : last.calls[n].outcome # "timeout"
            called    == { last.calls[n].row : n \in DOMAIN last.calls }
        IN  /\ Len(last.calls) <= DefaultMaxNewThreads
            /\ (sheet = BulkSheet /\ cycle = 1 /\ noTimeout /\ SheetRead)
                  => /\ Len(last.calls) = DefaultMaxNewThreads
                     /\ Cardinality(DOMAIN sheet \ called) = BulkSize - DefaultMaxNewThreads
            /\ (sheet = BulkSheet /\ cycle = 2 /\ prevClean /\ clean)
                  => called = (DefaultMaxNewThreads + 1)..BulkSize

\* the first cycle on the sheet of 15 new guilds stopped at the cap
C9_Witness ==
    /\ last.phase = "post"
    /\ sheet = BulkSheet
    /\ Len(sheet) = 15
    /\ cycle = 1
    /\ Len(last.calls) = 10

Recognised(row) == trim(row.faction) = Alliance \/ trim(row.faction) = Horde

\* the row is one postNewEntries has to post: a guild no thread of either
\* channel names, not too old, of a recognised faction
ToPost(row) ==
    /\ HasGuildName(row)
    /\ \A ch \in Channels : \A k \in DOMAIN last.before[ch] :
          ~NameInTitle(row, last.before[ch][k])
    /\ ~RowTooOld(row, last.at)
    /\ Recognised(row)

\* C10: postNewEntries calls a creation only for a row whose trimmed faction
\* is exactly Alliance (in the Alliance channel) or exactly Horde (in the
\* Horde channel); a row of another faction gets no call and does not keep
\* a later row from its call (the cap, a timeout and a failed request of
\* the sheet do).
C10_FactionRouting ==
    last.phase = "post" =>
        /\ \A n \in DOMAIN last.calls :
              LET faction == trim(sheet[last.calls[n].row].faction)
              IN  \/ faction = Alliance /\ last.calls[n].ch = "alliance"
                  \/ faction = Horde /\ last.calls[n].ch = "horde"
        /\ \A i \in DOMAIN sheet :
              (/\ SheetRead
               /\ Len(last.calls) < DefaultMaxNewThreads
               /\ \A n \in DOMAIN last.calls : last.calls[n].outcome # "timeout"
               /\ \E j \in 1..(i - 1) : ~Recognised(sheet[j])
               /\ ToPost(sheet[i]))
                 => \E n \in DOMAIN last.calls : last.calls[n].row = i

\* a row of an unrecognised faction that was otherwise to be posted got no
\* call, and the row after it, whose faction needs the trim, got one in the
\* Horde channel
C10_Witness ==
    /\ last.phase = "post"
    /\ Len(sheet) >= 2
    /\ ~Recognised(sheet[1])
    /\ HasGuildName(sheet[1]) /\ ~RowTooOld(sheet[1], last.at)
    /\ \A n \in DOMAIN last.calls : last.calls[n].row # 1
    /\ \E n \in DOMAIN last.calls :
          /\ last.calls[n].row = 2
          /\ last.calls[n].ch = "horde"
          /\ sheet[2].faction # Horde


\* the row's guild name is contained in the title of a thread one of the two
\* channels held when the phase listed them
Represented(row) ==
    \E ch \in Channels : \E k \in DOMAIN last.before[ch] :
        NameInTitle(row, last.before[ch][k])

\* C11: postNewEntries makes no creation call for a row whose trimmed,
\* lower-cased guild name is contained in the trimmed, lower-cased title of
\* a thread that either faction channel held when the phase listed the
\* threads, whichever faction the row names.
C11_NoCallForRepresented ==
    last.phase = "post" =>
        \A n \in DOMAIN last.calls : ~Represented(sheet[last.calls[n].row])

\* a fresh row of faction Horde got no call because a thread of the
\* Alliance channel, and none of the Horde channel, has its guild name in
\* the title
C11_Witness ==
    /\ last.phase = "post"
    /\ \E i \in DOMAIN sheet :
          /\ HasGuildName(sheet[i])
          /\ ~RowTooOld(sheet[i], last.at)
          /\ trim(sheet[i].faction) = Horde
          /\ \E k \in DOMAIN last.before["alliance"] :
                NameInTitle(sheet[i], last.before["alliance"][k])
          /\ \A k \in DOMAIN last.before["horde"] :
                ~NameInTitle(sheet[i], last.before["horde"][k])
          /\ \A n \in DOMAIN last.calls : last.calls[n].row # i


\* the row is one that is to have a thread: a guild name, a recognised
\* faction and a timestamp that is not too old now
Eligible(row) ==
    /\ HasGuildName(row)
    /\ Recognised(row)
    /\ HasTimestamp(row)
    /\ ~RowTooOld(row, now)

\* a thread of a faction channel carries the title created for the row
Served(row) ==
    \E ch \in Channels : \E k \in DOMAIN threads[ch] :
        threads[ch][k].name = rowTitle(row)

\* no call has failed so far, no time goes by between the cycles, and this
\* cycle ended with the threads the previous one ended with: every later
\* cycle does what this one did
SteadyState ==
    /\ CycleDone
    /\ cycle >= 2
    /\ faults = 0
    /\ pollInterval = 0
    /\ prevEnd = Snapshot(threads)

\* C12: with an unchanged spreadsheet and no platform failure, every row
\* with a guild name, a faction Alliance or Horde and a timestamp that is
\* not too old gets a thread created for it and has it at the end of every
\* later cycle; so the cycles cannot settle in a state in which such a row
\* has no thread.
C12_SettlesOnlyWhenServed ==
    SteadyState => \A row \in SheetRows : Eligible(row) => Served(row)


\* the threads of both channels of snapshot snap under the title created
\* for the row, compared as removeDuplicateThreads compares titles
ThreadsOf(snap, row) ==
    { <<ch, k>> \in Channels \X (1..BulkSize) :
        /\ k \in DOMAIN snap[ch]
        /\ normTitle(snap[ch][k].name) = normTitle(rowTitle(row)) }

\* C13: when a cycle ended with more than one thread created for one guild
\* of the spreadsheet across the faction channels, the next cycle, run
\* without a failed call on the same spreadsheet, ends with exactly one
\* thread for that guild (the guild of a row that is still to have a
\* thread; no call has failed in the cycle before either).
C13_DriftGoneNextCycle ==
    (CycleDone /\ cycle >= 2 /\ faults = 0) =>
        \A row \in SheetRows :
            (Eligible(row) /\ Cardinality(ThreadsOf(prevEnd, row)) > 1)
               => Cardinality(ThreadsOf(Snapshot(threads), row)) = 1


\* C14: when a phase has returned, no thread delete and no thread create it
\* started is still in flight, so none takes effect while a later phase or
\* a later poll runs (every state of the model lies between two phases).
C14_NothingOutlivesItsPhase ==
    /\ inflight = {}
    /\ last.phase # "background"


C16_NeverHangs ==
    pc # Hung


\* C17: when the platform answers a thread creation with a rate limit, the
\* engine waits the hinted time, or 10 seconds without a hint, before its
\* next operation.
C17_WaitsAfterRateLimit ==
    last.phase = "post" =>
        \A n \in DOMAIN last.calls :
            last.calls[n].outcome = "rateLimit"
               => last.calls[n].slept >= DefaultRateLimitDelay


\* C18: whatever fails while one guild is polled, the scheduler goes on: its
\* loop never ends, after the failed poll of a guild the next guild of the
\* round is polled, and a poll that a phase broke off by throwing returns,
\* so that the round ends and the next one starts after the poll interval.
C18_SchedulerGoesOn ==
    /\ pc # Stopped
    /\ last.phase = "otherGuild" => (pc = 0 /\ polled = {"other"})
    /\ pc \in DOMAIN PollTasks => polled = {"other", "main"}
    /\ (last.phase = "similar" /\ last.outcome = "throws") => CycleDone


\* C19: a delete that fails in removeDuplicateThreads or
\* removeUnmatchedThreads does not end the phase: every selected thread gets
\* its delete, every thread whose delete did not fail is gone, and the next
\* task of the poll is awaited.
C19_FailedDeleteIsSkipped ==
    last.phase \in {"dup", "unmatched"} =>
        /\ \A id \in last.selected \ last.failed : id \notin Ids(threads[last.ch])
        /\ (IF last.phase = "dup" THEN ops.dup[last.ch] ELSE ops.unm[last.ch])
              = Cardinality(last.selected)
        /\ pc = Len(started) + 1
        /\ pc \in DOMAIN PollTasks

\* the delete of one selected thread failed and another selected thread
\* was deleted
C19_Witness ==
    /\ last.phase \in {"dup", "unmatched"}
    /\ last.failed # {}
    /\ last.selected \ last.failed # {}
    /\ \A id \in last.selected \ last.failed : id \notin Ids(threads[last.ch])
    /\ last.failed \subseteq Ids(threads[last.ch])

\* the columns a phase reads from the rows: removeUnmatchedThreads the guild
\* name and the timestamp, handleReposting and handleThreadReposting the guild
\* name, the timestamp and the guild type, postNewEntries all four
columnsRead(phase) ==
    IF phase = "unmatched" THEN {"Guild Name", "Timestamp"}
    ELSE IF phase = "repost" THEN {"Guild Name", "Timestamp", "Guild Type"}
    ELSE IF phase = "post" THEN RequiredColumns
    ELSE {}

\* C20: when the header row lacks a column that the unmatched removal, the
\* repost or the posting of new entries reads, that phase issues no thread
\* delete and no thread create (it selects nothing, reposts nothing, makes no
\* creation call and leaves the channels as they were), and the poll goes on
\* to its next task.
C20_MissingColumnAborts ==
    (/\ last.phase \in {"unmatched", "repost", "post"}
     /\ ~(columnsRead(last.phase) \subseteq headers))
    => /\ last.selected = {}
       /\ last.chosen = 0
       /\ last.calls = << >>
       /\ threads = last.before
       /\ pc = Len(started) + 1

\* the row cannot take part in a phase: it has no guild name, or its
\* timestamp cell is empty, is not there, or does not parse
Unusable(row) == ~HasGuildName(row) \/ row.timestamp.kind # "date"

\* C21: under a complete header row, a row without a guild name or without
\* a parseable timestamp gets no creation call in postNewEntries, is not the
\* row a thread is reposted for, keeps no thread from the unmatched removal
\* (a thread whose title contains the guild name of no usable row is
\* selected), and does not end the phase before the rows after it are read.
C21_BadRowsSkipped ==
    headers = RequiredColumns =>
        /\ last.phase = "post" =>
              /\ \A n \in DOMAIN last.calls : ~Unusable(sheet[last.calls[n].row])
              /\ last.outcome # "threw"
        /\ last.phase = "repost" =>
              /\ last.chosen # 0 => ~Unusable(sheet[last.row])
              /\ last.outcome # "threw"
        /\ last.phase = "unmatched" =>
              \A i \in DOMAIN Before :
                  (~\E row \in SheetRows : /\ ~Unusable(row)
                                           /\ NameInTitle(row, Before[i]))
                     => Before[i].id \in last.selected

\* the timestamp cell holds a string that DateTime.fromFormat does not parse
Unparseable(cell) == cell.kind \in {"empty", "garbage"}

\* C22: isEntryTooOld is true of every timestamp string that does not parse,
\* the empty string included, whenever a phase applies it to a row of the
\* sheet; so postNewEntries calls no creation for such a row and no thread
\* is reposted for it.
C22_UnparseableIsTooOld ==
    (last.phase \in {"unmatched", "repost", "post"} /\ headers = RequiredColumns) =>
        \A i \in DOMAIN sheet :
            Unparseable(sheet[i].timestamp) =>
                /\ isEntryTooOld(sheet[i].timestamp, last.at)
                /\ \A n \in DOMAIN last.calls : last.calls[n].row # i
                /\ last.chosen # 0 => last.row # i

\* the age of the entry of a row with a parseable timestamp, in hours at t
EntryAge(row, t) == t - row.timestamp.at

\* C23: for every row with a parseable timestamp that a phase reads,
\* isEntryTooOld is true exactly when the entry is more than
\* MAX_ENTRY_AGE_DAYS days old; postNewEntries calls no creation for an older
\* entry, and an entry exactly MAX_ENTRY_AGE_DAYS days old is posted like a
\* fresh one (unless the cap, a timeout, an error or a failed request of
\* the sheet ended the phase).
C23_StrictEntryAge ==
    last.phase \in {"unmatched", "repost", "post"} =>
        \A i \in DOMAIN sheet :
            sheet[i].timestamp.kind = "date" =>
                LET age   == EntryAge(sheet[i], last.at)
                    limit == MAX_ENTRY_AGE_DAYS * HoursPerDay
                IN  /\ isEntryTooOld(sheet[i].timestamp, last.at) <=> (age > limit)
                    /\ (last.phase = "post" /\ age > limit)
                         => \A n \in DOMAIN last.calls : last.calls[n].row # i
                    /\ (/\ last.phase = "post" /\ age = limit
                        /\ headers = RequiredColumns
                        /\ ToPost(sheet[i])
                        /\ \A j \in 1..(i - 1) : Recognised(sheet[j])
                        /\ last.outcome # "threw"
                        /\ SheetRead
                        /\ Len(last.calls) < DefaultMaxNewThreads
                        /\ \A n \in DOMAIN last.calls : last.calls[n].outcome # "timeout")
                         => \E n \in DOMAIN last.calls : last.calls[n].row = i

\* a thread was created for an entry exactly MAX_ENTRY_AGE_DAYS days old
C23_Witness ==
    /\ last.phase = "post"
    /\ \E n \in DOMAIN last.calls :
          /\ last.calls[n].outcome = "ok"
          /\ sheet[last.calls[n].row].timestamp.kind = "date"
          /\ EntryAge(sheet[last.calls[n].row], last.at) = MAX_ENTRY_AGE_DAYS * HoursPerDay

\* C24: in the repost phase needsRepost is true of a thread exactly when the
\* thread has a creation date and is at least as many hours old as the
\* THREAD_AGE_LIMIT_HOURS of the guild's record at the start of the poll; a
\* thread without a creation date has the age -1 and is never the thread
\* reposted.
C24_InclusiveThreadAge ==
    last.phase = "repost" =>
        /\ \A i \in DOMAIN Before :
              /\ needsRepost(Before[i], last.at)
                    <=> (/\ Before[i].createdAt # NoDate
                         /\ last.at - Before[i].createdAt >= atStart.THREAD_AGE_LIMIT_HOURS)
              /\ Before[i].createdAt = NoDate => getThreadAge(Before[i], last.at) = -1
              /\ Before[i].id = last.chosen =>
                    /\ Before[i].createdAt # NoDate
                    /\ last.at - Before[i].createdAt >= atStart.THREAD_AGE_LIMIT_HOURS

\* in the first cycle the Alliance thread, exactly THREAD_AGE_LIMIT_HOURS
\* hours old, was reposted, and the Horde thread without a creation date,
\* whose title names the same fresh row, was not
C24_Witness ==
    /\ last.phase = "repost" /\ last.ch = "horde" /\ last.chosen = 0
    /\ cycle = 1
    /\ \E i \in DOMAIN Before :
          /\ Before[i].createdAt = NoDate
          /\ \E row \in SheetRows : /\ NameInTitle(row, Before[i])
                                    /\ ~Unusable(row)
                                    /\ ~RowTooOld(row, last.at)
    /\ reposts[cycle]["alliance"] = [del |-> 1, create |-> 1]
    /\ \E k \in DOMAIN threads["alliance"] :
          /\ threads["alliance"][k].createdAt = last.at
          /\ threads["alliance"][k].name = tEdge.name

\* a poll of the guild is running or has just returned
InPoll == pc \in DOMAIN PollTasks \/ CycleDone

\* C25: the configuration a poll works with is the record the file held
\* when the poll began, also when a setup command has changed the record
\* since: the two timers of this.config are those of that record in every
\* phase, and the repost phase measures the threads against that record's
\* thread age limit.
C25_FreshConfigEachPoll ==
    InPoll =>
        /\ used.THREAD_AGE_LIMIT_HOURS = atStart.THREAD_AGE_LIMIT_HOURS
        /\ used.MAX_ENTRY_AGE_DAYS = atStart.MAX_ENTRY_AGE_DAYS
        /\ last.phase = "repost" =>
              /\ \A i \in DOMAIN Before :
                    Before[i].id = last.chosen =>
                        last.at - Before[i].createdAt >= atStart.THREAD_AGE_LIMIT_HOURS
              /\ (/\ last.chosen = 0 /\ last.outcome = "none"
                  /\ headers = RequiredColumns)
                    => \A i \in DOMAIN Before :
                          (/\ Before[i].createdAt # NoDate
                           /\ last.at - Before[i].createdAt
                                 >= atStart.THREAD_AGE_LIMIT_HOURS)
                            => \A row \in SheetRows :
                                  (HasGuildName(row) /\ NameInTitle(row, Before[i]))
                                     => \E other \in SheetRows :
                                           /\ HasGuildName(other)
                                           /\ NameInTitle(other, Before[i])
                                           /\ RowTooOld(other, last.at)

\* the second poll began after a setup command raised the thread age limit:
\* a thread the first poll's limit would have reposted, with a fresh row, is
\* left alone, in a channel where the first poll did repost
C25_Witness ==
    /\ cycle = 2
    /\ last.phase = "repost"
    /\ last.chosen = 0
    /\ atStart.THREAD_AGE_LIMIT_HOURS = SetupThreadAgeLimitHours
    /\ reposts[1][last.ch].create = 1
    /\ \E i \in DOMAIN Before :
          /\ Before[i].createdAt # NoDate
          /\ last.at - Before[i].createdAt >= THREAD_AGE_LIMIT_HOURS
          /\ last.at - Before[i].createdAt < SetupThreadAgeLimitHours
          /\ \E row \in SheetRows : /\ HasGuildName(row)
                                    /\ NameInTitle(row, Before[i])
                                    /\ ~Unusable(row)
                                    /\ ~RowTooOld(row, last.at)

\* the cap the record of the guild configures for the running poll
ConfiguredCap ==
    IF atStart.MAX_NEW_THREADS_PER_CYCLE # 0
    THEN atStart.MAX_NEW_THREADS_PER_CYCLE
    ELSE DefaultMaxNewThreads

\* C26: postNewEntries makes at most as many creation calls as the
\* MAX_NEW_THREADS_PER_CYCLE entry of the guild's record says, and at most 10
\* only when the record has no such entry.
C26_CapFromRecord ==
    last.phase = "post" => Len(last.calls) <= ConfiguredCap

\* the threads checkAndPostSimilarThreads compared in its last run
Compared == last.before[last.ch]

\* the title findSimilarThreads compares for the thread at position i
ComparedTitle(i) == toLowerCase(trim(Compared[i].name))

\* the titles at positions i and j have a similarity of at least 0.8
Similar80(i, j) ==
    LET similarity == compareTwoStrings(ComparedTitle(i), ComparedTitle(j))
    IN  5 * similarity.num >= 4 * similarity.den

\* a moderation thread that was active when the run listed them names, in
\* its title or in one of its messages, the guild name of a member of
\* cluster c, whatever the letter case
Flagged(c) ==
    \E k \in DOMAIN last.modBefore :
        \E m \in DOMAIN last.clusters[c].members :
            LET guildName == toLowerCase(extractGuildNameFromThreadName(
                                 Compared[last.clusters[c].members[m]].name))
            IN  \/ includes(toLowerCase(last.modBefore[k].name), guildName)
                \/ \E n \in DOMAIN last.modBefore[k].messages :
                      includes(toLowerCase(last.modBefore[k].messages[n]), guildName)

\* the moderation threads the last run of checkAndPostSimilarThreads created
NewAlerts == SubSeq(modThreads, Len(last.modBefore) + 1, Len(modThreads))

\* the run created an alert thread for cluster c
Alerted(c) ==
    \E k \in DOMAIN NewAlerts :
        NewAlerts[k].name = alertTitle(last.clusters[c].key, last.at)

MemberNames(c) == guildNames(Compared, last.clusters[c])

\* C28: an alert thread is never created while an alert thread that names
\* the same guild is active in the moderation channel: of the alerts one run
\* creates, none is for a cluster with a member guild that a moderation
\* thread present at that moment names, be it older or of this very run.
C28_NoDuplicateAlerts ==
    (last.phase = "similar" /\ last.outcome = "ok") =>
        \A k \in (Len(last.modBefore) + 1)..Len(modThreads) :
            \A c \in DOMAIN last.clusters :
                modThreads[k].name = alertTitle(last.clusters[c].key, last.at)
                    => \A j \in 1..(k - 1) : ~references(modThreads[j], MemberNames(c))

\* C29: the clusters of findSimilarThreads: for every pair of positions
\* i < j whose normalised titles have a similarity at or above the threshold,
\* thread j is a member of the cluster whose key is title i; every member
\* of a cluster comes from such a pair; no cluster is empty, no two clusters
\* share a key, and every key is the title of the earlier thread of such a
\* pair.
C29_ClustersFromPairs ==
    (last.phase = "similar" /\ last.outcome # "throws") =>
        /\ \A i \in DOMAIN Compared : \A j \in DOMAIN Compared :
              (i < j /\ Similar80(i, j)) =>
                  \E c \in DOMAIN last.clusters :
                      /\ last.clusters[c].key = ComparedTitle(i)
                      /\ \E m \in DOMAIN last.clusters[c].members :
                            last.clusters[c].members[m] = j
        /\ \A c \in DOMAIN last.clusters :
              /\ last.clusters[c].members # << >>
              /\ \A m \in DOMAIN last.clusters[c].members :
                    \E i \in 1..(last.clusters[c].members[m] - 1) :
                        /\ ComparedTitle(i) = last.clusters[c].key
                        /\ Similar80(i, last.clusters[c].members[m])
              /\ \A d \in DOMAIN last.clusters :
                    last.clusters[d].key = last.clusters[c].key => d = c

\* three similar titles: the first is the key of a cluster of the second and
\* the third, the second the key of a cluster of the third, and the third,
\* with no later title, is no key
C29_Witness ==
    /\ last.phase = "similar"
    /\ last.outcome = "ok"
    /\ Len(Compared) = 3
    /\ Len(last.clusters) = 2
    /\ last.clusters[1].key = ComparedTitle(1)
    /\ last.clusters[1].members = << 2, 3 >>
    /\ last.clusters[2].key = ComparedTitle(2)
    /\ last.clusters[2].members = << 3 >>
    /\ \A c \in DOMAIN last.clusters : last.clusters[c].key # ComparedTitle(3)

\* the image cell of the row ends like a picture
AcceptedImageUrl(row) ==
    /\ row.image.kind = "text"
    /\ \/ endsWith(row.image.text, <<".","p","n","g">>)
       \/ endsWith(row.image.text, <<".","j","p","g">>)
       \/ endsWith(row.image.text, <<".","j","p","e","g">>)

\* the row has no image to attach: its image cell is no accepted image
\* URL, or the probe fails or reports something that is not an image, or
\* the download fails
ImageTrouble(row) ==
    \/ ~AcceptedImageUrl(row)
    \/ axiosHead(row.image.text).rejects
    \/ ~startsWith(axiosHead(row.image.text).contentType, <<"i","m","a","g","e","/">>)
    \/ axiosGet(row.image.text).rejects

\* a thread under the title of the row, created by the last phase, is in
\* channel ch
PostedNow(row, ch) ==
    \E k \in DOMAIN threads[ch] :
        /\ threads[ch][k].name = rowTitle(row)
        /\ threads[ch][k].createdAt = last.at

\* C30: the image never keeps a thread from being posted.  Under a complete
\* header row that the phase got and with every timestamp cell there, a row without an image
\* to attach that postNewEntries has to post gets its creation call (the
\* cap and a timeout apart), the message of the call has no attachment, and
\* the thread is there when the platform accepts the call; a thread
\* reposted for such a row gets a message without attachment, and is
\* there when the platform accepts the calls.
C30_ImageNeverFailsPost ==
    (/\ RequiredColumns \subseteq headers
     /\ \A j \in DOMAIN sheet : sheet[j].timestamp.kind # "missing") =>
        /\ last.phase = "post" =>
              /\ \A n \in DOMAIN last.calls :
                    ImageTrouble(sheet[last.calls[n].row])
                       => last.calls[n].files = << >>
              /\ \A i \in DOMAIN sheet :
                    (/\ SheetRead
                     /\ Len(last.calls) < DefaultMaxNewThreads
                     /\ \A n \in DOMAIN last.calls : last.calls[n].outcome # "timeout"
                     /\ ImageTrouble(sheet[i])
                     /\ ToPost(sheet[i]))
                       => \E n \in DOMAIN last.calls :
                             /\ last.calls[n].row = i
                             /\ last.calls[n].outcome = "ok"
                                   => PostedNow(sheet[i], last.calls[n].ch)
        /\ (/\ last.phase = "repost"
            /\ last.chosen # 0
            /\ ImageTrouble(sheet[last.row])) =>
              /\ last.files = << >>
              /\ last.outcome = "ok" => PostedNow(sheet[last.row], last.ch)

\* the image cell of the first row names a picture, the server answers the
\* probe with a page: the thread of the row is posted without attachment,
\* and so is the thread of the row after it
C30_Witness ==
    /\ last.phase = "post"
    /\ imageColumnFound(headers)
    /\ Len(sheet) = 2
    /\ sheet[1].image = TextCell(HtmlPngUrl)
    /\ Len(last.calls) = 2
    /\ last.calls[1].row = 1
    /\ last.calls[1].files = << >>
    /\ last.calls[1].outcome = "ok"
    /\ PostedNow(sheet[1], "alliance")
    /\ PostedNow(sheet[2], "alliance")

\* the 'Description' cell of the row holds a text of more than 1024
\* characters, under a header row with that column
LongNote(row) ==
    /\ NoteColumn \in headers
    /\ row.note.kind = "text"
    /\ Len(trim(row.note.text)) > 1024

\* the fields hold one for the description of the row: the beginning of the
\* description, cut short and ended by an ellipsis
ShownTruncated(fields, row) ==
    \E f \in DOMAIN fields :
        /\ fields[f].name = NoteColumn
        /\ Len(fields[f].value) < Len(trim(row.note.text))
        /\ endsWith(fields[f].value, <<".", ".", ".">>)
        /\ startsWith(trim(row.note.text),
                      SubSeq(fields[f].value, 1, Len(fields[f].value) - 3))

\* C31: a display value of more than 1024 characters is rendered: the
\* message of every thread created for the row, by postNewEntries or by a
\* repost, has the field of the value, truncated and marked with an
\* ellipsis.
C31_LongValueTruncated ==
    /\ last.phase = "post" =>
          \A n \in DOMAIN last.calls :
              LongNote(sheet[last.calls[n].row])
                 => ShownTruncated(last.calls[n].fields, sheet[last.calls[n].row])
    /\ (last.phase = "repost" /\ last.chosen # 0 /\ last.outcome = "ok") =>
          (LongNote(sheet[last.row]) => ShownTruncated(last.fields, sheet[last.row]))

\* a poll of guild g is in progress in the pass
PollInProgress(pass, g) == pass.guild = g /\ pass.at \in DOMAIN IntervalPhases

\* C32: in the scheduler that starts pollAllServers by setInterval, a new
\* pass over the guilds never starts while an earlier pass is still
\* running, and no two polls of the same guild are in progress at the same
\* time.
C32_PassesNeverOverlap ==
    /\ Len(passes) <= 1
    /\ \A p \in DOMAIN passes : \A q \in DOMAIN passes :
          \A g \in 1..NumGuilds :
              (PollInProgress(passes[p], g) /\ PollInProgress(passes[q], g)) => p = q

\* C38: under the isPolling guard a tick that fires while a poll is in
\* progress performs no phase, the flag is set exactly while a poll is in
\* progress, so it is clear again when the poll has ended, by a return or
\* by a throw; at most one poll is in progress at any time, and a tick that
\* fires when no poll is in progress starts one, whatever became of the
\* polls before it.
C38_GuardedPolling ==
    /\ Len(passes) <= 1
    /\ isPolling <=> passes # << >>
    /\ (timerLast.kind = "tick" /\ timerLast.before # << >>)
          => passes = timerLast.before
    /\ (timerLast.kind = "tick" /\ timerLast.before = << >>)
          => passes = << Pass(1, 1) >>
    /\ (timerLast.kind = "step" /\ passes = << >>) => ~isPolling

\* a poll has thrown, a later tick has started the next poll, and the tick
\* after it fired while that poll was in progress: it changed nothing
C38_Witness ==
    /\ timerLast.kind = "tick"
    /\ timerLast.threw >= 1
    /\ timerLast.before # << >>
    /\ timerLast.skipped >= 1
    /\ passes = timerLast.before
    /\ isPolling

\* the containment rule of phases 2, 3 and 4: the trimmed, lower-cased
\* title contains the trimmed, lower-cased guild name
TitleNamesGuild(title, guildName) ==
    includes(toLowerCase(trim(title)), toLowerCase(trim(guildName)))

\* C33: title round trip.  The title the engine creates a thread under,
\* for a row postNewEntries posts and for the row of a repost, contains the
\* guild name of that row under the containment rule, so the thread is
\* recognised as the thread of the row by the later phases.
C33_TitleRoundTrip ==
    /\ last.phase = "post" =>
          \A n \in DOMAIN last.calls :
              TitleNamesGuild(last.calls[n].title,
                              sheet[last.calls[n].row].guildName)
    /\ (last.phase = "repost" /\ last.chosen # 0 /\ last.outcome = "ok") =>
          \A k \in DOMAIN threads[last.ch] :
              threads[last.ch][k].createdAt = last.at
                 => TitleNamesGuild(threads[last.ch][k].name,
                                    sheet[last.row].guildName)

\* the row names the faction of channel ch
FactionOf(row, ch) ==
    \/ ch = "alliance" /\ trim(row.faction) = Alliance
    \/ ch = "horde" /\ trim(row.faction) = Horde

\* C34: faction routing.  Every thread the engine creates, by a creation
\* call of postNewEntries or as the recreation step of a repost, is created
\* in the channel of the faction its row names.
C34_CreatedInFactionChannel ==
    /\ last.phase = "post" =>
          \A n \in DOMAIN last.calls :
              FactionOf(sheet[last.calls[n].row], last.calls[n].ch)
    /\ (last.phase = "repost" /\ last.chosen # 0 /\ last.outcome = "ok") =>
          \A k \in DOMAIN threads[last.ch] :
              threads[last.ch][k].createdAt = last.at
                 => FactionOf(sheet[last.row], last.ch)


\* C35: when the request of the sheet fails (getSpreadsheetData returns the
\* empty grid), the phase deletes and creates nothing: removeUnmatchedThreads,
\* repostOldestThread and postNewEntries each end with the threads of both
\* channels as they were, with no thread selected and no call made, and the
\* poll is at the next task.
C35_FetchFailureMutatesNothing ==
    (last.phase \in {"unmatched", "repost", "post"} /\ ~SheetRead) =>
        /\ threads = last.before
        /\ last.selected = {}
        /\ last.chosen = 0
        /\ last.calls = << >>
        /\ pc \in DOMAIN PollTasks
        /\ pc > 1
        /\ PollTasks[pc - 1] = [phase |-> last.phase, ch |-> last.ch]

\* the request failed in removeUnmatchedThreads while the channel held a
\* thread that the rows of the sheet would have had it delete
C35_Witness ==
    /\ last.phase = "unmatched"
    /\ ~SheetRead
    /\ {"Guild Name", "Timestamp"} \subseteq headers
    /\ unmatchedThreads(Before, sheet, last.at) # {}
    /\ threads = last.before
    /\ AtTask("unmatched", "horde") \/ AtTask("repost", "alliance")


\* C36: one run of postNewEntries makes at most one creation call for one
\* guild name: no two of its calls are for rows of the same trimmed guild
\* name.
C36_OneCallPerGuildName ==
    last.phase = "post" =>
        \A n, m \in DOMAIN last.calls :
            trim(sheet[last.calls[n].row].guildName) = trim(sheet[last.calls[m].row].guildName)
               => n = m


\* the row the repost phase finds for a thread: the first row of the sheet
\* with a guild name that the title contains, 0 when there is none
FoundRow(thread) ==
    LET hits == { i \in DOMAIN sheet : HasGuildName(sheet[i]) /\ NameInTitle(sheet[i], thread) }
    IN  IF hits = {} THEN 0 ELSE CHOOSE i \in hits : \A j \in hits : i <= j

\* the thread the channel held before the phase is not there after it
Gone(thread) == \A k \in DOMAIN threads[last.ch] : threads[last.ch][k].id # thread.id

\* C37: the repost phase deletes a thread only when it has found a row for
\* it, a row whose guild name the title contains, and the entry of that row
\* is not too old (too old: its timestamp parses and is more than
\* MAX_ENTRY_AGE_DAYS days old); a thread without such a row, or whose row
\* is too old, is still there after the phase.
C37_RepostNeedsFreshRow ==
    last.phase = "repost" =>
        \A i \in DOMAIN Before :
            Gone(Before[i]) =>
                /\ FoundRow(Before[i]) # 0
                /\ ~RowTooOld(sheet[FoundRow(Before[i])], last.at)

\* the phase deleted a thread for its fresh row and left an older thread
\* past the age limit alone, one without a row or with a row that is too old
C37_Witness ==
    /\ last.phase = "repost"
    /\ \E i, j \in DOMAIN Before :
          /\ Gone(Before[i])
          /\ ~Gone(Before[j])
          /\ Before[j].createdAt # NoDate
          /\ Before[j].createdAt < Before[i].createdAt
          /\ last.at - Before[j].createdAt >= THREAD_AGE_LIMIT_HOURS
          /\ \/ FoundRow(Before[j]) = 0
             \/ RowTooOld(sheet[FoundRow(Before[j])], last.at)


\* C39: in the setup menus, a Horde selection by a user without a pending
\* Alliance selection is rejected and leaves the records of the guilds and
\* the pending selections as they were; HORDE_CHANNEL_ID is written only for
\* a user who has selected an Alliance channel before; and a pending
\* selection is gone only after a Moderation selection of its user.
C39_HordeNeedsAlliance ==
    /\ (menuLast.type = "horde" /\ menuLast.selections[menuLast.user] = NoSelection)
          => /\ menuLast.reply = "needAlliance"
             /\ channelIds = menuLast.before
             /\ userSelections = menuLast.selections
    /\ (menuLast.type = "horde" /\ channelIds # menuLast.before)
          => /\ menuLast.user \in selectors
             /\ menuLast.selections[menuLast.user] # NoSelection
    /\ \A g \in MenuGuilds :
          channelIds[g].HORDE_CHANNEL_ID # menuLast.before[g].HORDE_CHANNEL_ID
             => /\ menuLast.type = "horde"
                /\ menuLast.guild = g
                /\ menuLast.user \in selectors
    /\ \A u \in MenuUsers :
          (menuLast.selections[u] # NoSelection /\ userSelections[u] = NoSelection)
             => menuLast.type = "mod" /\ menuLast.user = u

\* a user who had completed the menus selected a Horde channel again and
\* was rejected, while the other user had a pending selection
C39_Witness ==
    /\ menuLast.type = "horde"
    /\ menuLast.reply = "needAlliance"
    /\ menuLast.user \in selectors
    /\ userSelections[menuLast.user] = NoSelection
    /\ \E u \in MenuUsers : userSelections[u] # NoSelection
    /\ channelIds[menuLast.guild].HORDE_CHANNEL_ID # menuLast.channelId
    /\ channelIds = menuLast.before


=============================================================================
